---- MODULE Spec2Model ----
(***************************************************************************)
(* Model of the WinCC OA marketplace add-on handler:                       *)
(*   - AddOnHandler.registerSubProject / unregisterSubProject together     *)
(*     with the embedded CTRL functions registerSubProj, unregisterSubProj *)
(*     and addManager, and NodeInstaller.installAndBuild;                  *)
(*   - CommandExecutor.execute and AsciiManager.import;                    *)
(*   - AddOnHandler.listOrganizationRepositories;                          *)
(*   - AddOnHandler.cloneRepository with extractRepoNameFromUrl.           *)
(* Strings are sequences of one-character strings.  Paths follow the POSIX *)
(* flavour of node's path module.                                          *)
(***************************************************************************)
EXTENDS Integers, Sequences, FiniteSets, TLC

\* ------------------------------------------------------------------------
\* Bounds of the model
\* ------------------------------------------------------------------------

\* Longest config.Managers list handed to registerSubProject.
MaxManagers == 3

\* Most unregisterSubProject calls in one behaviour.
MaxUnregisters == 1

\* Largest exit code of the ASCII manager process.
MaxExitCode == 56

\* Largest perPage and maxPages handed to listOrganizationRepositories.
MaxPerPage == 2
MaxMaxPages == 3

\* Most pieces (a separator, a letter, a dot, ".git") a url is built from.
MaxUrlPieces == 4

\* Latest value of the clock read by Date.now().
MaxNow == 1

\* The cloneRepository calls made and the commits pushed upstream.
MaxSyncCalls == 2
MaxPushes == 1

VARIABLES
    \* --- the running project, owned by the control-script collaborator ---
    subProjects,    \* paGetSubProjs(PROJ): sequence of sub-project names
    projManagers,   \* managers inserted by pmonInsertManager, in order
    \* --- the directory tree below <path>/javascript ---
    jsExists,       \* fs.existsSync(projDir + "/javascript")
    pkgJson,        \* the directories that hold a package.json file
    \* --- one AddOnHandler.registerSubProject(path, config) call ---
    regPc,          \* position of the async function
    regPath,        \* argument path
    regManagers,    \* argument config.Managers
    ret,            \* result of ctrlScript.start("registerSubProj")
    dirs,           \* result of NodeInstaller.findPackageDirs
    dirIdx,         \* index of the for-of loop over dirs
    cmdIdx,         \* which command of DirCommands is next in dirs[dirIdx]
    cmdLog,         \* external commands started, with their exit codes
    mgrIdx,         \* index of the for-of loop over config.Managers
    attachLog,      \* addManager calls started, with their results
    inFlight,       \* external calls started and not yet finished
    regOutcome,     \* how the call ended: "none", "returned", "thrown"
    unregLog,       \* the unregisterSubProject calls made, with their results
    \* --- one AsciiManager.import call ---
    impPc,          \* position of the async function
    impLogWarnings, \* argument logWarnings
    impExitCode,    \* result.exitCode of CommandExecutor.execute
    impReturn,      \* the value import resolved to
    impLog,         \* what import wrote to the console
    \* --- one AddOnHandler.listOrganizationRepositories call ---
    listPc,         \* position of the async function
    perPage,        \* option perPage
    maxPages,       \* option maxPages
    page,           \* local page
    hasMorePages,   \* local hasMorePages
    allRepos,       \* local allRepos
    requests,       \* the page numbers requested from the remote, in order
    responses,      \* the pages the remote answered with, in order
    listOutcome,    \* "none", "returned", or the error thrown
    \* --- the local file system and the clock ---
    fsDirs,         \* the directories, each the sequence of its segments
    fsFiles,        \* the regular files
    now,            \* Date.now()
    \* --- two resolutions of the clone target for one url and hint ---
    resUrl,         \* argument cloneUrl
    resHint,        \* argument targetDirectory
    resolved,       \* the targets resolved so far, in order
    \* --- AddOnHandler.cloneRepository calls for one url, hint and branch ---
    syncPc,         \* position of the async function
    syncCalls,      \* the number of calls made
    syncUrl,        \* argument cloneUrl
    syncUrlGiven,   \* the request mapping has a "url" entry
    syncHint,       \* argument targetDirectory
    syncBranch,     \* argument branch
    syncTarget,     \* locals fullPath and repoName
    syncExisted,    \* fs.existsSync(fullPath), as the call found it
    syncCloned,     \* the call issued git clone
    upstream,       \* the number of commits of the remote repository
    pulled,         \* per working copy, the upstream commits it holds
    manifest,       \* package.winccoa.json of the repository
    gitLog,         \* what the last calls did with the file system and git
    syncLog,        \* the last two calls that ended, in order
    \* --- one error caught by cloneRepository and by pullRepository ---
    errMessage,     \* error.message, with the phrases it contains
    cloneThrown,    \* what the catch block of cloneRepository throws for it
    pullThrown,     \* what the catch block of pullRepository throws for it
    \* --- AddOnHandler.pullRepository calls ---
    pullPc,         \* position of the async function
    pullDir,        \* argument repositoryDirectory
    pullLog         \* the calls that ended, in order

registerVars == <<subProjects, projManagers, jsExists, pkgJson, regPc, regPath,
                  regManagers, ret, dirs, dirIdx, cmdIdx, cmdLog, mgrIdx,
                  attachLog, inFlight, regOutcome, unregLog>>

importVars == <<impPc, impLogWarnings, impExitCode, impReturn, impLog>>

listVars == <<listPc, perPage, maxPages, page, hasMorePages, allRepos, requests,
              responses, listOutcome>>

fsVars == <<fsDirs, fsFiles, now>>

resolveVars == <<resUrl, resHint, resolved>>

syncVars == <<syncPc, syncCalls, syncUrl, syncUrlGiven, syncHint, syncBranch, syncTarget,
              syncExisted, syncCloned, upstream, pulled, manifest, gitLog,
              syncLog>>

classifyVars == <<errMessage, cloneThrown, pullThrown>>

pullVars == <<pullPc, pullDir, pullLog>>

vars == <<registerVars, importVars, listVars, fsVars, resolveVars, syncVars,
          classifyVars, pullVars>>

\* The variables a component leaves alone.
notRegisterVars == <<importVars, listVars, fsVars, resolveVars, syncVars,
                     classifyVars, pullVars>>
notImportVars == <<registerVars, listVars, fsVars, resolveVars, syncVars,
                   classifyVars, pullVars>>
notListVars == <<registerVars, importVars, fsVars, resolveVars, syncVars,
                 classifyVars, pullVars>>
notResolveVars == <<registerVars, importVars, listVars, syncVars, classifyVars,
                    pullVars>>
notSyncVars == <<registerVars, importVars, listVars, resolveVars, classifyVars,
                 pullVars>>
notClassifyVars == <<registerVars, importVars, listVars, fsVars, resolveVars,
                     syncVars, pullVars>>
notPullVars == <<registerVars, importVars, listVars, fsVars, resolveVars,
                 syncVars, classifyVars>>

\* A component no call was made to.
IdleImport ==
    /\ impPc = "idle"
    /\ impLogWarnings = FALSE
    /\ impExitCode = [t |-> "pending", n |-> 0]
    /\ impReturn = FALSE
    /\ impLog = "none"

IdleFs ==
    /\ fsDirs = {}
    /\ fsFiles = {}
    /\ now = 0

IdleResolve ==
    /\ resUrl = <<>>
    /\ resHint = <<>>
    /\ resolved = <<>>

NoMessage == [text |-> "none", has |-> {}]

NoError == [kind |-> "none", includes |-> {}]

IdleClassify ==
    /\ errMessage = NoMessage
    /\ cloneThrown = NoError
    /\ pullThrown = NoError

IdlePull ==
    /\ pullPc = "idle"
    /\ pullDir = <<>>
    /\ pullLog = <<>>

NoTarget == [fullPath |-> <<>>, repoName |-> <<>>]

IdleSync ==
    /\ syncPc = "idle"
    /\ syncCalls = 0
    /\ syncUrl = <<>>
    /\ syncUrlGiven = FALSE
    /\ syncHint = <<>>
    /\ syncBranch = <<>>
    /\ syncTarget = NoTarget
    /\ syncExisted = FALSE
    /\ syncCloned = FALSE
    /\ upstream = 0
    /\ pulled = <<>>
    /\ manifest = "absent"
    /\ gitLog = <<>>
    /\ syncLog = <<>>

IdleRegister ==
    /\ subProjects = <<>>
    /\ projManagers = <<>>
    /\ jsExists = FALSE
    /\ pkgJson = {<<"node_modules">>}
    /\ regPc = "idle"
    /\ regPath = <<>>
    /\ regManagers = <<>>
    /\ ret = 0
    /\ dirs = <<>>
    /\ dirIdx = 1
    /\ cmdIdx = 1
    /\ cmdLog = <<>>
    /\ mgrIdx = 1
    /\ attachLog = <<>>
    /\ inFlight = {}
    /\ regOutcome = "none"
    /\ unregLog = <<>>

IdleList ==
    /\ listPc = "idle"
    /\ perPage = 0
    /\ maxPages = 0
    /\ page = 1
    /\ hasMorePages = TRUE
    /\ allRepos = <<>>
    /\ requests = <<>>
    /\ responses = <<>>
    /\ listOutcome = "none"

\* ------------------------------------------------------------------------
\* Strings as sequences of characters
\* ------------------------------------------------------------------------

IsPrefix(p, s) == Len(p) <= Len(s) /\ SubSeq(s, 1, Len(p)) = p

IsSuffix(p, s) ==
    Len(p) <= Len(s) /\ SubSeq(s, Len(s) - Len(p) + 1, Len(s)) = p

Drop(s, n) == SubSeq(s, n + 1, Len(s))

RECURSIVE StrReplace(_, _, _)
\* CTRL strreplace(s, from, to): every occurrence, left to right.
StrReplace(s, from, to) ==
    IF s = <<>> THEN <<>>
    ELSE IF IsPrefix(from, s) THEN to \o StrReplace(Drop(s, Len(from)), from, to)
    ELSE <<Head(s)>> \o StrReplace(Tail(s), from, to)

RECURSIVE SplitFields(_, _, _)
\* The fields of s between occurrences of the character sep; cur is the
\* field being read.
SplitFields(s, sep, cur) ==
    IF s = <<>> THEN <<cur>>
    ELSE IF Head(s) = sep THEN <<cur>> \o SplitFields(Tail(s), sep, <<>>)
    ELSE SplitFields(Tail(s), sep, Append(cur, Head(s)))

\* CTRL strsplit(s, sep): the fields, without an empty last field.
StrSplit(s, sep) ==
    LET f == SplitFields(s, sep, <<>>)
    IN  IF f[Len(f)] = <<>> THEN SubSeq(f, 1, Len(f) - 1) ELSE f

Range(s) == {s[i] : i \in 1..Len(s)}

RECURSIVE SeqsNoRepeat(_, _)
\* The sequences of length at most n over S without a repeated element.
SeqsNoRepeat(S, n) ==
    IF n = 0 THEN {<<>>}
    ELSE LET shorter == SeqsNoRepeat(S, n - 1)
         IN  shorter \cup
             UNION {{Append(q, x) : x \in S \ Range(q)} : q \in shorter}

\* ------------------------------------------------------------------------
\* JavaScript values of CommandResult.exitCode
\* ------------------------------------------------------------------------

JsInt(n) == [t |-> "int", n |-> n]
JsNull == [t |-> "null", n |-> 0]
JsString == [t |-> "str", n |-> 0]
\* A command that was started and has not completed yet.
Pending == [t |-> "pending", n |-> 0]

\* What child_process.exec hands to its callback as err: nothing, an exit
\* with a non-zero code, a termination by signal (err.code is null) or a
\* failure to start the process (err.code is a string such as "ENOENT").
ErrNone == [kind |-> "none", code |-> 0]
ErrExit(n) == [kind |-> "exit", code |-> n]
ErrSignal == [kind |-> "signal", code |-> 0]
ErrSpawn == [kind |-> "spawn", code |-> 0]

\* CommandExecutor.execute: exitCode: err?.code !== undefined ? err.code : 0
ExecuteExitCode(err) ==
    CASE err.kind = "none" -> JsInt(0)
      [] err.kind = "exit" -> JsInt(err.code)
      [] err.kind = "signal" -> JsNull
      [] OTHER -> JsString

\* ------------------------------------------------------------------------
\* node's path module (POSIX) and the file system
\* ------------------------------------------------------------------------

\* String.split("/"): every field, empty ones too.
Fields(p) == SplitFields(p, "/", <<>>)

Dot == <<".">>
DotDot == <<".", ".">>

RECURSIVE JoinSegs(_)
\* The segments with "/" between them.
JoinSegs(segs) ==
    IF segs = <<>> THEN <<>>
    ELSE IF Len(segs) = 1 THEN segs[1]
    ELSE segs[1] \o <<"/">> \o JoinSegs(Tail(segs))

RECURSIVE NormalizeSegs(_, _, _)
\* normalizeString: empty and "." segments are dropped, ".." removes the
\* segment before it; acc holds the segments kept so far.
NormalizeSegs(fields, acc, allowAboveRoot) ==
    IF fields = <<>> THEN acc
    ELSE LET seg == Head(fields)
             rest == Tail(fields)
         IN  IF seg = <<>> \/ seg = Dot
             THEN NormalizeSegs(rest, acc, allowAboveRoot)
             ELSE IF seg = DotDot
             THEN IF acc # <<>> /\ acc[Len(acc)] # DotDot
                  THEN NormalizeSegs(rest, SubSeq(acc, 1, Len(acc) - 1),
                                     allowAboveRoot)
                  ELSE IF allowAboveRoot
                  THEN NormalizeSegs(rest, Append(acc, seg), allowAboveRoot)
                  ELSE NormalizeSegs(rest, acc, allowAboveRoot)
             ELSE NormalizeSegs(rest, Append(acc, seg), allowAboveRoot)

\* path.isAbsolute
IsAbsolute(p) == Len(p) > 0 /\ p[1] = "/"

\* process.cwd(), which is also _defaultDirectory off Windows.
Cwd == <<"/", "w">>

\* path.resolve(a, b): the rightmost absolute argument and what follows it,
\* below the working directory when none is absolute, normalized.
PathResolve(a, b) ==
    LET whole == IF IsAbsolute(b) THEN b
                 ELSE IF IsAbsolute(a) THEN a \o <<"/">> \o b
                 ELSE Cwd \o <<"/">> \o a \o <<"/">> \o b
    IN  <<"/">> \o JoinSegs(NormalizeSegs(Fields(whole), <<>>, FALSE))

\* path.normalize
PathNormalize(p) ==
    IF p = <<>> THEN Dot
    ELSE LET trailingSeparator == p[Len(p)] = "/"
             str == JoinSegs(NormalizeSegs(Fields(p), <<>>, ~IsAbsolute(p)))
         IN  IF str = <<>>
             THEN IF IsAbsolute(p) THEN <<"/">>
                  ELSE IF trailingSeparator THEN <<".", "/">> ELSE Dot
             ELSE (IF IsAbsolute(p) THEN <<"/">> ELSE <<>>) \o str \o
                  (IF trailingSeparator THEN <<"/">> ELSE <<>>)

\* path.join(a, b): the non-empty arguments with "/" between, normalized.
PathJoin(a, b) ==
    IF a = <<>> /\ b = <<>> THEN Dot
    ELSE IF a = <<>> THEN PathNormalize(b)
    ELSE IF b = <<>> THEN PathNormalize(a)
    ELSE PathNormalize(a \o <<"/">> \o b)

\* path.basename: the last non-empty segment.
PathBasename(p) ==
    LET segs == SelectSeq(Fields(p), LAMBDA f : f # <<>>)
    IN  IF segs = <<>> THEN <<>> ELSE segs[Len(segs)]

RECURSIVE DirnameEnd(_, _, _)
\* The loop of path.dirname, from the last character down to the second:
\* the position of the first "/" that follows a non-"/" character, or 0.
DirnameEnd(p, i, matchedSlash) ==
    IF i < 2 THEN 0
    ELSE IF p[i] = "/"
         THEN IF ~matchedSlash THEN i ELSE DirnameEnd(p, i - 1, matchedSlash)
         ELSE DirnameEnd(p, i - 1, FALSE)

\* path.dirname
PathDirname(p) ==
    IF p = <<>> THEN Dot
    ELSE LET end == DirnameEnd(p, Len(p), TRUE)
         IN  IF end = 0 THEN (IF IsAbsolute(p) THEN <<"/">> ELSE Dot)
             ELSE IF IsAbsolute(p) /\ end = 2 THEN <<"/", "/">>
             ELSE SubSeq(p, 1, end - 1)

\* The root directory and the segments of the working directory.
RootDir == <<>>
CwdSegs == NormalizeSegs(Fields(Cwd), <<>>, FALSE)

IsDir(at) == at = RootDir \/ at \in fsDirs

RECURSIVE Walk(_, _)
\* The file system's lookup of a path from the directory at: every step
\* needs the place reached so far to be a directory.
Walk(fields, at) ==
    IF fields = <<>> THEN [ok |-> TRUE, at |-> at]
    ELSE IF ~IsDir(at) THEN [ok |-> FALSE, at |-> at]
    ELSE LET seg == Head(fields)
             to == IF seg = <<>> \/ seg = Dot THEN at
                   ELSE IF seg = DotDot
                   THEN (IF at = RootDir THEN at ELSE SubSeq(at, 1, Len(at) - 1))
                   ELSE Append(at, seg)
         IN  IF IsDir(to) \/ to \in fsFiles
             THEN Walk(Tail(fields), to)
             ELSE [ok |-> FALSE, at |-> to]

Lookup(p) ==
    IF p = <<>> THEN [ok |-> FALSE, at |-> RootDir]
    ELSE Walk(Fields(p), IF IsAbsolute(p) THEN RootDir ELSE CwdSegs)

\* fs.existsSync
ExistsSync(p) == Lookup(p).ok

\* fs.statSync(p).isDirectory(), for a path that exists
IsDirectory(p) == IsDir(Lookup(p).at)

\* ------------------------------------------------------------------------
\* AsciiManager.import
\* ------------------------------------------------------------------------

\* JavaScript numbers as far as import meets them: an integer or NaN.
NumInt(n) == [t |-> "int", n |-> n]
NumNaN == [t |-> "nan", n |-> 0]

\* Number(result.exitCode): Number(null) is 0, Number("ENOENT") is NaN.
ToNumber(v) ==
    CASE v.t = "int" -> NumInt(v.n)
      [] v.t = "null" -> NumInt(0)
      [] OTHER -> NumNaN

\* Array.prototype.includes on an array of integers.
Includes(codes, num) == num.t = "int" /\ num.n \in codes

SUCCESS_EXIT_CODES == {0}
WARNING_EXIT_CODES == {55}

\* A classifier that lets an unknown code pass as a warning.
ClassifyFailOpen(exitCode, successCodes, warningCodes) ==
    IF Includes(successCodes, exitCode) THEN "Success" ELSE "Warning"

\* The tiers of import: the success codes first, then the warning codes,
\* everything else is an error.
Classify(exitCode, successCodes, warningCodes) ==
    IF Includes(successCodes, exitCode) THEN "Success"
    ELSE IF Includes(warningCodes, exitCode) THEN "Warning"
    ELSE "Error"

\* What prepareImportCommand needs to build a command: a manager instance,
\* a non-blank file name, the three resolved paths, an existing import file.
ImportInputs ==
    [winccoa : BOOLEAN, fileName : BOOLEAN, paths : BOOLEAN, fileExists : BOOLEAN]

\* prepareImportCommand returns a non-empty command.
PrepareImportCommand(in) ==
    in.winccoa /\ in.fileName /\ in.paths /\ in.fileExists

\* The outcomes of the ASCII manager process.
ImportErrs ==
    {ErrNone, ErrSignal, ErrSpawn} \cup {ErrExit(n) : n \in 1..MaxExitCode}

\* import is called: the command is prepared and, when valid, executed.
ImportCall(in, logWarnings) ==
    /\ impPc = "idle"
    /\ impLogWarnings' = logWarnings
    /\ IF PrepareImportCommand(in)
       THEN /\ impPc' = "execute"
            /\ UNCHANGED <<impReturn, impLog>>
       ELSE /\ impPc' = "done"
            /\ impReturn' = FALSE
            /\ impLog' = "error"
    /\ UNCHANGED <<impExitCode, notImportVars>>

\* The command completes and its exit code is classified.
ImportExecuteDone(err) ==
    /\ impPc = "execute"
    /\ impExitCode' = ExecuteExitCode(err)
    /\ LET tier == Classify(ToNumber(impExitCode'), SUCCESS_EXIT_CODES,
                            WARNING_EXIT_CODES)
       IN  /\ impReturn' = (tier # "Error")
           /\ impLog' = CASE tier = "Success" -> "none"
                          [] tier = "Warning" ->
                               IF impLogWarnings THEN "warn" ELSE "none"
                          [] OTHER -> "error"
    /\ impPc' = "done"
    /\ UNCHANGED <<impLogWarnings, notImportVars>>

InitImport ==
    /\ IdleImport /\ IdleRegister /\ IdleList /\ IdleFs /\ IdleResolve
    /\ IdleSync /\ IdleClassify /\ IdlePull

NextImport ==
    \/ \E in \in ImportInputs, logWarnings \in BOOLEAN : ImportCall(in, logWarnings)
    \/ \E err \in ImportErrs : ImportExecuteDone(err)

SpecImport == InitImport /\ [][NextImport]_vars

\* ------------------------------------------------------------------------
\* The running project: the CTRL functions of AddOnHandler.ctrlScript
\* ------------------------------------------------------------------------

\* The paths handed to register and unregister.
RegPaths ==
    { <<"/", "p", "/", "x">>,
      <<"/", "p", "/", "y">>,
      <<"/", "q", "/", "/", "x">> }

\* Results of paRegProj and paDelProj: a negative code is a failure.
PaResults == {-1, 0}

\* projName of registerSubProj and unregisterSubProj: the last part of the
\* path split at "/", after "//" was replaced by "/".
ProjName(path) ==
    LET pathParts == StrSplit(StrReplace(path, <<"/", "/">>, <<"/">>), "/")
    IN  IF Len(pathParts) > 0 THEN pathParts[Len(pathParts)] ELSE <<>>

\* registerSubProj: the sub-project list after the call, given paRegProj's
\* result.
RegisterSubProj(path, paRet, subs) ==
    IF paRet < 0 THEN subs
    ELSE IF ProjName(path) \in Range(subs) THEN subs
    ELSE Append(subs, ProjName(path))

RECURSIVE RemoveFirst(_, _)
RemoveFirst(s, x) ==
    IF s = <<>> THEN <<>>
    ELSE IF Head(s) = x THEN Tail(s)
    ELSE <<Head(s)>> \o RemoveFirst(Tail(s), x)

\* An unregisterSubProj that leaves the list as it is.
UnregisterSubProjKeepsList(path, subs) == subs

\* unregisterSubProj: the sub-project list after the call.
UnregisterSubProj(path, subs) ==
    IF ProjName(path) \in Range(subs) THEN RemoveFirst(subs, ProjName(path))
    ELSE subs

\* ------------------------------------------------------------------------
\* NodeInstaller
\* ------------------------------------------------------------------------

\* Directories below <path>/javascript, named by their path from there.
JsRoot == <<>>

\* fs.promises.readdir(dir): the sub-directories of dir, in the order the
\* file system lists them.
DirEntries(dir) ==
    CASE dir = JsRoot -> <<"a", "node_modules", "c">>
      [] dir = <<"a">> -> <<"b">>
      [] OTHER -> <<>>

\* The directories that may or may not hold a package.json.
OptionalPkgDirs == {JsRoot, <<"a", "b">>, <<"c">>}

RECURSIVE FindPackageDirs(_, _, _)
RECURSIVE WalkEntries(_, _, _, _)
\* NodeInstaller.findPackageDirs(dir, found) below an existing dir.
FindPackageDirs(dir, found, pkg) ==
    LET found1 == IF dir \in pkg THEN Append(found, dir) ELSE found
    IN  WalkEntries(dir, DirEntries(dir), found1, pkg)

\* The for-of loop of findPackageDirs over the entries of dir.
WalkEntries(dir, entries, found, pkg) ==
    IF entries = <<>> THEN found
    ELSE IF Head(entries) # "node_modules"
         THEN WalkEntries(dir, Tail(entries),
                          FindPackageDirs(Append(dir, Head(entries)), found, pkg),
                          pkg)
         ELSE WalkEntries(dir, Tail(entries), found, pkg)

\* The commands installAndBuild runs in each directory, in order.
DirCommands == <<"npm install", "npx tsc">>

\* The outcomes of an install or build command.
InstallErrs == {ErrNone, ErrExit(1), ErrExit(55), ErrSignal, ErrSpawn}

\* A runCommand that takes only a negative exit code for a failure.
CommandFailedOnlyNegative(exitCode) == exitCode.t = "int" /\ exitCode.n < 0

\* NodeInstaller.runCommand: result.exitCode !== 0
CommandFailed(exitCode) == ~(exitCode.t = "int" /\ exitCode.n = 0)

\* ------------------------------------------------------------------------
\* AddOnHandler.registerSubProject and unregisterSubProject
\* ------------------------------------------------------------------------

ManagerNames == {"A", "B", "C"}

\* The outcomes of ctrlScript.start("addManager"): the manager was inserted,
\* pmonInsertManager reported err, or the script call was rejected.
AddManagerOutcomes == {"ok", "err", "throw"}

CtrlCall == [kind |-> "ctrl", idx |-> 0]
CmdCall(i) == [kind |-> "cmd", idx |-> i]
MgrCall(i) == [kind |-> "mgr", idx |-> i]

InitRegister ==
    /\ subProjects \in {<<>>, <<ProjName(<<"/", "p", "/", "x">>)>>}
    /\ projManagers = <<>>
    /\ jsExists \in BOOLEAN
    /\ pkgJson \in {S \cup {<<"node_modules">>} :
                      S \in IF jsExists THEN SUBSET OptionalPkgDirs ELSE {{}}}
    /\ regPc = "idle"
    /\ regPath = <<>>
    /\ regManagers = <<>>
    /\ ret = 0
    /\ dirs = <<>>
    /\ dirIdx = 1
    /\ cmdIdx = 1
    /\ cmdLog = <<>>
    /\ mgrIdx = 1
    /\ attachLog = <<>>
    /\ inFlight = {}
    /\ regOutcome = "none"
    /\ unregLog = <<>>
    /\ IdleImport
    /\ IdleList
    /\ IdleFs
    /\ IdleResolve
    /\ IdleSync
    /\ IdleClassify
    /\ IdlePull

\* registerSubProject is called: ctrlScript.start("registerSubProj") is
\* issued and awaited.
RegisterCall(path, managers) ==
    /\ regPc = "idle"
    /\ regPc' = "registerSubProj"
    /\ regPath' = path
    /\ regManagers' = managers
    /\ inFlight' = {CtrlCall}
    /\ UNCHANGED <<notRegisterVars, subProjects, projManagers, jsExists, pkgJson, ret, dirs,
                   dirIdx, cmdIdx, cmdLog, mgrIdx, attachLog, regOutcome,
                   unregLog>>

\* The registration primitive returns paRegProj's code.
RegisterSubProjDone(paRet) ==
    /\ regPc = "registerSubProj"
    /\ ret' = paRet
    /\ subProjects' = RegisterSubProj(regPath, paRet, subProjects)
    /\ inFlight' = {}
    /\ regPc' = "installAndBuild"
    /\ UNCHANGED <<notRegisterVars, projManagers, jsExists, pkgJson, regPath, regManagers, dirs,
                   dirIdx, cmdIdx, cmdLog, mgrIdx, attachLog, regOutcome,
                   unregLog>>

\* The script call of the registration primitive is rejected.
RegisterSubProjThrows ==
    /\ regPc = "registerSubProj"
    /\ inFlight' = {}
    /\ regPc' = "done"
    /\ regOutcome' = "thrown"
    /\ UNCHANGED <<notRegisterVars, subProjects, projManagers, jsExists, pkgJson, regPath,
                   regManagers, ret, dirs, dirIdx, cmdIdx, cmdLog, mgrIdx,
                   attachLog, unregLog>>

\* installAndBuild: findPackageDirs(projDir + "/javascript").
InstallAndBuildFind ==
    /\ regPc = "installAndBuild"
    /\ dirs' = IF jsExists THEN FindPackageDirs(JsRoot, <<>>, pkgJson) ELSE <<>>
    /\ dirIdx' = 1
    /\ cmdIdx' = 1
    /\ regPc' = IF dirs' = <<>> THEN "managers" ELSE "runCommand"
    /\ UNCHANGED <<notRegisterVars, subProjects, projManagers, jsExists, pkgJson, regPath,
                   regManagers, ret, cmdLog, mgrIdx, attachLog, inFlight,
                   regOutcome, unregLog>>

\* An installAndBuild that starts the commands without awaiting them.
RunCommandNotAwaited == TRUE

\* The awaits of installAndBuild and runCommand: the next command is started
\* only when the promise of the previous one has resolved, which it does in
\* the callback of exec, the process being over.
RunCommandAwaited == inFlight = {}

\* runCommand: CommandExecutor.execute is issued and awaited.
RunCommandStart ==
    /\ regPc = "runCommand"
    /\ RunCommandAwaited
    /\ cmdLog' = Append(cmdLog, [dir |-> dirs[dirIdx],
                                 cmd |-> DirCommands[cmdIdx],
                                 exitCode |-> Pending])
    /\ inFlight' = {CmdCall(Len(cmdLog) + 1)}
    /\ UNCHANGED <<notRegisterVars, subProjects, projManagers, jsExists, pkgJson, regPc, regPath,
                   regManagers, ret, dirs, dirIdx, cmdIdx, mgrIdx, attachLog,
                   regOutcome, unregLog>>

\* The command completes; runCommand throws on a failed command, and the
\* error leaves installAndBuild and registerSubProject.
RunCommandDone(err) ==
    /\ regPc = "runCommand"
    /\ inFlight # {}
    /\ LET exitCode == ExecuteExitCode(err)
           lastCmd == cmdIdx = Len(DirCommands)
           lastDir == dirIdx = Len(dirs)
       IN  /\ cmdLog' = [cmdLog EXCEPT ![Len(cmdLog)].exitCode = exitCode]
           /\ inFlight' = {}
           /\ IF CommandFailed(exitCode)
              THEN /\ regPc' = "done"
                   /\ regOutcome' = "thrown"
                   /\ UNCHANGED <<dirIdx, cmdIdx>>
              ELSE /\ regPc' = IF lastCmd /\ lastDir THEN "managers"
                               ELSE "runCommand"
                   /\ cmdIdx' = IF lastCmd THEN 1 ELSE cmdIdx + 1
                   /\ dirIdx' = IF lastCmd THEN dirIdx + 1 ELSE dirIdx
                   /\ UNCHANGED regOutcome
    /\ UNCHANGED <<notRegisterVars, subProjects, projManagers, jsExists, pkgJson, regPath,
                   regManagers, ret, dirs, mgrIdx, attachLog, unregLog>>

\* A manager loop that issues the calls without awaiting them.
AddManagerNotAwaited == TRUE

\* The await of the manager loop: the next addManager call is issued only
\* when the previous one has completed.
AddManagerAwaited == inFlight = {}

\* The manager loop issues ctrlScript.start("addManager") for the next
\* manager of config.Managers.
AddManagerStart ==
    /\ regPc = "managers"
    /\ mgrIdx <= Len(regManagers)
    /\ AddManagerAwaited
    /\ attachLog' = Append(attachLog, [name |-> regManagers[mgrIdx],
                                       result |-> "pending"])
    /\ inFlight' = inFlight \cup {MgrCall(Len(attachLog) + 1)}
    /\ mgrIdx' = mgrIdx + 1
    /\ UNCHANGED <<notRegisterVars, subProjects, projManagers, jsExists, pkgJson, regPc, regPath,
                   regManagers, ret, dirs, dirIdx, cmdIdx, cmdLog, regOutcome,
                   unregLog>>

\* An addManager call completes; a rejected call leaves registerSubProject.
AddManagerDone(call, outcome) ==
    /\ regPc = "managers"
    /\ call \in inFlight
    /\ attachLog' = [attachLog EXCEPT ![call.idx].result = outcome]
    /\ projManagers' = IF outcome = "ok"
                       THEN Append(projManagers, attachLog[call.idx].name)
                       ELSE projManagers
    /\ IF outcome = "throw"
       THEN /\ regPc' = "done"
            /\ regOutcome' = "thrown"
            /\ inFlight' = {}
       ELSE /\ inFlight' = inFlight \ {call}
            /\ UNCHANGED <<regPc, regOutcome>>
    /\ UNCHANGED <<notRegisterVars, subProjects, jsExists, pkgJson, regPath, regManagers, ret,
                   dirs, dirIdx, cmdIdx, cmdLog, mgrIdx, unregLog>>

\* The manager loop is over: return ret.
RegisterReturn ==
    /\ regPc = "managers"
    /\ mgrIdx > Len(regManagers)
    /\ inFlight = {}
    /\ regPc' = "done"
    /\ regOutcome' = "returned"
    /\ UNCHANGED <<notRegisterVars, subProjects, projManagers, jsExists, pkgJson, regPath,
                   regManagers, ret, dirs, dirIdx, cmdIdx, cmdLog, mgrIdx,
                   attachLog, inFlight, unregLog>>

\* unregisterSubProject(path): the CTRL function unregisterSubProj.
UnregisterSubProject(path, paRet) ==
    /\ regPc \in {"idle", "done"}
    /\ Len(unregLog) < MaxUnregisters
    /\ subProjects' = UnregisterSubProj(path, subProjects)
    /\ unregLog' = Append(unregLog, [path |-> path, ret |-> paRet])
    /\ UNCHANGED <<notRegisterVars, projManagers, jsExists, pkgJson, regPc, regPath, regManagers,
                   ret, dirs, dirIdx, cmdIdx, cmdLog, mgrIdx, attachLog,
                   inFlight, regOutcome>>

NextRegister ==
    \/ \E path \in RegPaths, managers \in SeqsNoRepeat(ManagerNames, MaxManagers) :
          RegisterCall(path, managers)
    \/ \E paRet \in PaResults : RegisterSubProjDone(paRet)
    \/ RegisterSubProjThrows
    \/ InstallAndBuildFind
    \/ RunCommandStart
    \/ \E err \in InstallErrs : RunCommandDone(err)
    \/ AddManagerStart
    \/ \E call \in inFlight, outcome \in AddManagerOutcomes :
          AddManagerDone(call, outcome)
    \/ RegisterReturn
    \/ \E path \in RegPaths, paRet \in PaResults : UnregisterSubProject(path, paRet)

SpecRegister == InitRegister /\ [][NextRegister]_vars

\* MarketplaceService.registerSubProjects for the request [regPath]: one
\* registerSubProject call with no managers, whose result code is written
\* to the console; an error it throws rejects the request, and else the
\* request is answered with createBool(true).
RegisterSubProjects ==
    IF regOutcome = "thrown" THEN "thrown"
    ELSE IF regOutcome = "returned" THEN "true"
    ELSE "none"

\* ------------------------------------------------------------------------
\* AddOnHandler.listOrganizationRepositories
\* ------------------------------------------------------------------------

\* The repository records of the remote metadata API.
RemoteRepos ==
    { [name |-> "r1", clone_url |-> "u1", license |-> "MIT"],
      [name |-> "r2", clone_url |-> "u2", license |-> "none"] }

\* The projection of one record: license: repo.license?.name || null
RepoSummary(repo) ==
    [name |-> repo.name,
     cloneUrl |-> repo.clone_url,
     license |-> IF repo.license = "none" THEN "null" ELSE repo.license]

\* response.data.map(...)
MapRepos(data) == [i \in 1..Len(data) |-> RepoSummary(data[i])]

RECURSIVE SeqsUpTo(_, _)
\* The sequences of length at most n over S.
SeqsUpTo(S, n) ==
    IF n = 0 THEN {<<>>}
    ELSE LET shorter == SeqsUpTo(S, n - 1)
         IN  shorter \cup {Append(q, x) : q \in shorter, x \in S}

\* The statuses of a failed request: not found, forbidden, anything else.
RequestFailures == {404, 403, 500}

\* The catch block: the error thrown for a failed request.
ListError(status) ==
    CASE status = 404 -> "OrganizationNotFound"
      [] status = 403 -> "AccessDenied"
      [] OTHER -> "ListingFailed"

\* A loop without the cap on the number of pages.
LoopIgnoresCap == hasMorePages

\* The condition of the while loop.
LoopContinues == hasMorePages /\ page <= maxPages

\* A page put in front of the pages fetched before it.
PushReposFront(all, repos) == repos \o all

\* allRepos.push(...repos)
PushRepos(all, repos) == all \o repos

\* listOrganizationRepositories is called.
ListCall(pp, mp) ==
    /\ listPc = "idle"
    /\ perPage' = pp
    /\ maxPages' = mp
    /\ page' = 1
    /\ hasMorePages' = TRUE
    /\ allRepos' = <<>>
    /\ listPc' = "loop"
    /\ UNCHANGED <<requests, responses, listOutcome, notListVars>>

\* The loop body starts: repos.listForOrg is issued for page and awaited.
ListRequest ==
    /\ listPc = "loop"
    /\ LoopContinues
    /\ requests' = Append(requests, page)
    /\ listPc' = "await"
    /\ UNCHANGED <<perPage, maxPages, page, hasMorePages, allRepos, responses,
                   listOutcome, notListVars>>

\* The remote answers with a page of at most perPage records.
ListResponse(data) ==
    /\ listPc = "await"
    /\ responses' = Append(responses, data)
    /\ allRepos' = PushRepos(allRepos, MapRepos(data))
    /\ hasMorePages' = (Len(data) = perPage)
    /\ page' = page + 1
    /\ listPc' = "loop"
    /\ UNCHANGED <<perPage, maxPages, requests, listOutcome, notListVars>>

\* The request fails: the catch block throws.
ListRequestFails(status) ==
    /\ listPc = "await"
    /\ listOutcome' = ListError(status)
    /\ listPc' = "done"
    /\ UNCHANGED <<perPage, maxPages, page, hasMorePages, allRepos, requests,
                   responses, notListVars>>

\* The loop is over: return allRepos.
ListReturn ==
    /\ listPc = "loop"
    /\ ~LoopContinues
    /\ listOutcome' = "returned"
    /\ listPc' = "done"
    /\ UNCHANGED <<perPage, maxPages, page, hasMorePages, allRepos, requests,
                   responses, notListVars>>

InitList ==
    /\ IdleList /\ IdleRegister /\ IdleImport /\ IdleFs /\ IdleResolve
    /\ IdleSync /\ IdleClassify /\ IdlePull

NextList ==
    \/ \E pp \in 1..MaxPerPage, mp \in 0..MaxMaxPages : ListCall(pp, mp)
    \/ ListRequest
    \/ \E data \in SeqsUpTo(RemoteRepos, perPage) : ListResponse(data)
    \/ \E status \in RequestFailures : ListRequestFails(status)
    \/ ListReturn

SpecList == InitList /\ [][NextList]_vars

\* ------------------------------------------------------------------------
\* AddOnHandler.extractRepoNameFromUrl and the target of cloneRepository
\* ------------------------------------------------------------------------

GitSuffix == <<".", "g", "i", "t">>

\* The lengths a group behind position i can have for the rest of the
\* expression, (?:\.git)?$, to have a chance: up to the end of the url, or up
\* to where a last ".git" would start.
GroupEnds(url, i) ==
    {k \in {Len(url) - i - Len(GitSuffix), Len(url) - i} : k >= 1}

\* The group made greedy: the most characters instead of the fewest.
GroupLengthGreedy(url, i) ==
    LET fits == {k \in GroupEnds(url, i) :
                    /\ Drop(url, i + k) \in {<<>>, GitSuffix}
                    /\ \A j \in (i + 1)..(i + k) : url[j] # "/"}
    IN  IF fits = {} THEN 0 ELSE CHOOSE k \in fits : \A m \in fits : k >= m

\* The ".git" suffix made mandatory: (?:\.git) without the "?".
GroupLengthGitRequired(url, i) ==
    LET fits == {k \in GroupEnds(url, i) :
                    /\ Drop(url, i + k) = GitSuffix
                    /\ \A j \in (i + 1)..(i + k) : url[j] # "/"}
    IN  IF fits = {} THEN 0 ELSE CHOOSE k \in fits : \A m \in fits : k <= m

\* The lazy group ([^\/]+?) tried right behind the "/" at position i: the
\* fewest characters, at least one and none of them "/", after which only
\* "" or ".git" is left before the end of the url.  0 when there is none.
GroupLength(url, i) ==
    LET fits == {k \in GroupEnds(url, i) :
                    /\ Drop(url, i + k) \in {<<>>, GitSuffix}
                    /\ \A j \in (i + 1)..(i + k) : url[j] # "/"}
    IN  IF fits = {} THEN 0 ELSE CHOOSE k \in fits : \A m \in fits : k <= m

\* url.match(/\/([^\/]+?)(?:\.git)?$/): the match at the leftmost "/" that
\* has one; its group, or <<>> when the expression does not match.
MatchRepoName(url) ==
    LET starts == {i \in 1..Len(url) : url[i] = "/" /\ GroupLength(url, i) > 0}
    IN  IF starts = {} THEN <<>>
        ELSE LET i == CHOOSE n \in starts : \A m \in starts : n <= m
             IN  SubSeq(url, i + 1, i + GroupLength(url, i))

DigitChars == <<"0", "1", "2", "3", "4", "5", "6", "7", "8", "9">>

RECURSIVE Digits(_)
\* The decimal digits of a natural number, as the template literal prints it.
Digits(n) ==
    IF n < 10 THEN <<DigitChars[n + 1]>>
    ELSE Digits(n \div 10) \o <<DigitChars[(n % 10) + 1]>>

\* `repo-${Date.now()}`
FallbackName(t) == <<"r", "e", "p", "o", "-">> \o Digits(t)

\* extractRepoNameFromUrl, called when Date.now() is t.
ExtractRepoNameFromUrl(url, t) ==
    LET match == MatchRepoName(url)
    IN  IF match # <<>> THEN match ELSE FallbackName(t)

\* this._defaultDirectory: process.cwd() off Windows.
DefaultDirectory == Cwd

GitDirName == GitSuffix

\* The target without the check for an existing repository: the name from
\* the url is appended to every directory that exists.
ResolveTargetNoRepoCheck(cloneUrl, targetDirectory, t) ==
    LET name == ExtractRepoNameFromUrl(cloneUrl, t)
    IN  IF targetDirectory # <<>>
        THEN LET dir == IF IsAbsolute(targetDirectory) THEN targetDirectory
                        ELSE PathResolve(<<>>, targetDirectory)
             IN  IF ExistsSync(dir) /\ IsDirectory(dir)
                 THEN [fullPath |-> PathJoin(dir, name), repoName |-> name]
                 ELSE [fullPath |-> dir, repoName |-> PathBasename(dir)]
        ELSE [fullPath |-> PathResolve(DefaultDirectory, name),
              repoName |-> name]

\* The target with a relative target directory taken as given instead of
\* resolved below the working directory first.
ResolveTargetRelativeAsGiven(cloneUrl, targetDirectory, t) ==
    LET name == ExtractRepoNameFromUrl(cloneUrl, t)
    IN  IF targetDirectory # <<>>
        THEN LET dir == targetDirectory
             IN  IF ExistsSync(dir) /\ IsDirectory(dir)
                 THEN IF ExistsSync(PathJoin(dir, GitDirName))
                      THEN [fullPath |-> dir, repoName |-> PathBasename(dir)]
                      ELSE [fullPath |-> PathJoin(dir, name), repoName |-> name]
                 ELSE [fullPath |-> dir, repoName |-> PathBasename(dir)]
        ELSE [fullPath |-> PathResolve(DefaultDirectory, name),
              repoName |-> name]

\* The first part of cloneRepository: fullPath and repoName for a url and a
\* target directory (<<>> when none is given), when Date.now() is t.
ResolveTarget(cloneUrl, targetDirectory, t) ==
    LET name == ExtractRepoNameFromUrl(cloneUrl, t)
    IN  IF targetDirectory # <<>>
        THEN LET dir == IF IsAbsolute(targetDirectory) THEN targetDirectory
                        ELSE PathResolve(<<>>, targetDirectory)
             IN  IF ExistsSync(dir) /\ IsDirectory(dir)
                 THEN IF ExistsSync(PathJoin(dir, GitDirName))
                      THEN [fullPath |-> dir, repoName |-> PathBasename(dir)]
                      ELSE [fullPath |-> PathJoin(dir, name), repoName |-> name]
                 ELSE [fullPath |-> dir, repoName |-> PathBasename(dir)]
        ELSE [fullPath |-> PathResolve(DefaultDirectory, name),
              repoName |-> name]

RECURSIVE Flatten(_)
Flatten(pieces) ==
    IF pieces = <<>> THEN <<>> ELSE Head(pieces) \o Flatten(Tail(pieces))

\* The pieces the urls are built from.
UrlPieces == {<<"/">>, <<"d">>, Dot, GitSuffix}

\* "https://example/org/demo.git"
DemoUrl ==
    <<"h", "t", "t", "p", "s", ":", "/", "/", "e", "x", "a", "m", "p", "l", "e",
      "/", "o", "r", "g", "/", "d", "e", "m", "o", ".", "g", "i", "t">>

ResolveUrls ==
    {Flatten(q) : q \in SeqsUpTo(UrlPieces, MaxUrlPieces)} \cup {DemoUrl}

\* The file system the targets are resolved in: the working directory /w,
\* a plain directory /w/c, a repository /w/r and a regular file /w/f.
SampleDirs ==
    { <<<<"w">>>>,
      <<<<"w">>, <<"c">>>>,
      <<<<"w">>, <<"r">>>>,
      <<<<"w">>, <<"r">>, GitDirName>> }

SampleFiles ==
    { <<<<"w">>, <<"f">>>>,
      <<<<"w">>, <<"r">>, GitDirName, <<"HEAD">>>> }

\* Target directories: none; absolute and relative names of the plain
\* directory, the repository, a path that does not exist and the file; and
\* absolute names that are not normalized.
ResolveHints ==
    { <<>>,
      <<"/", "w", "/", "c">>, <<"/", "w", "/", "r">>, <<"/", "w", "/", "n">>,
      <<"/", "w", "/", "f">>,
      <<"c">>, <<"r">>, <<"n", "/", "m">>,
      <<"/", "w", "/", "/", "c", "/">>,
      <<"/", "w", "/", ".", "/", "r">>,
      <<"/", "w", "/", "c", "/", ".", ".", "/", "n">> }

InitResolve ==
    /\ fsDirs = SampleDirs
    /\ fsFiles = SampleFiles
    /\ now = 0
    /\ resUrl \in ResolveUrls
    /\ resHint \in ResolveHints
    /\ resolved = <<>>
    /\ IdleRegister
    /\ IdleImport
    /\ IdleList
    /\ IdleSync
    /\ IdleClassify
    /\ IdlePull

\* The target is resolved; the file system is only read.
Resolve ==
    /\ Len(resolved) < 2
    /\ resolved' = Append(resolved,
                          [target |-> ResolveTarget(resUrl, resHint, now),
                           at |-> now])
    /\ UNCHANGED <<resUrl, resHint, fsVars, notResolveVars>>

\* A millisecond passes.
Tick ==
    /\ now < MaxNow
    /\ now' = now + 1
    /\ UNCHANGED <<fsDirs, fsFiles, resolveVars, notResolveVars>>

NextResolve == Resolve \/ Tick

SpecResolve == InitResolve /\ [][NextResolve]_vars

\* ------------------------------------------------------------------------
\* AddOnHandler.cloneRepository
\* ------------------------------------------------------------------------

\* A simpleGit that takes any path that exists.
SimpleGitAnyPath(dir) == ExistsSync(dir)

\* simpleGit(dir) throws unless dir is an existing directory.
SimpleGitOk(dir) == ExistsSync(dir) /\ IsDirectory(dir)

RECURSIVE MkdirWalk(_, _, _)
\* fs.mkdirSync(p, {recursive: true}): every missing directory on the way
\* is made; it fails where the way leads through a regular file.
MkdirWalk(fields, at, made) ==
    IF fields = <<>> THEN [ok |-> TRUE, made |-> made]
    ELSE LET seg == Head(fields)
             to == IF seg = <<>> \/ seg = Dot THEN at
                   ELSE IF seg = DotDot
                   THEN (IF at = RootDir THEN at ELSE SubSeq(at, 1, Len(at) - 1))
                   ELSE Append(at, seg)
         IN  IF to \in fsFiles THEN [ok |-> FALSE, made |-> made]
             ELSE MkdirWalk(Tail(fields), to,
                            IF to = RootDir THEN made ELSE made \cup {to})

MkdirSync(p) ==
    MkdirWalk(Fields(p), IF IsAbsolute(p) THEN RootDir ELSE CwdSegs, {})

\* A working copy: a directory with a git directory in it.
IsWorkTree(at) ==
    /\ Append(at, GitDirName) \in fsDirs
    /\ Append(Append(at, GitDirName), <<"HEAD">>) \in fsFiles

\* The working copy git finds from a directory: the nearest one upwards.
HasWorkTree(at) == \E k \in 0..Len(at) : IsWorkTree(SubSeq(at, 1, k))

WorkTree(at) ==
    LET k == CHOOSE n \in 0..Len(at) :
                 /\ IsWorkTree(SubSeq(at, 1, n))
                 /\ \A m \in (n + 1)..Len(at) : ~IsWorkTree(SubSeq(at, 1, m))
    IN  SubSeq(at, 1, k)

\* Where git clone <url> <repoName>, run in parentDir, puts the working copy.
CloneDestination(parentDir, repoName) ==
    Walk(<<repoName>>, Lookup(parentDir).at)

\* git clones into a path that does not exist or is an empty directory.
DestinationFree(dest) ==
    \/ ~dest.ok
    \/ /\ dest.at \in fsDirs
       /\ \A e \in fsDirs \cup fsFiles :
              ~(Len(e) > Len(dest.at) /\ SubSeq(e, 1, Len(dest.at)) = dest.at)

ManifestName == <<"package.winccoa.json">>

\* What package.winccoa.json holds: nothing (there is no such file), JSON
\* in one line, the same JSON as JSON.stringify(value, null, 2) prints it,
\* or text that is not JSON.
ManifestAbsent == "absent"
ManifestCompact == "{\"Version\":\"1.0.0\"}"
ManifestPretty == "{\n  \"Version\": \"1.0.0\"\n}"
ManifestBroken == "{\"Version\":"

ManifestKinds == {ManifestAbsent, ManifestCompact, ManifestPretty, ManifestBroken}

\* JSON.parse: the value of a text, or a SyntaxError.
JsonParse(text) ==
    IF text \in {ManifestCompact, ManifestPretty}
    THEN [ok |-> TRUE, value |-> [Version |-> "1.0.0"]]
    ELSE [ok |-> FALSE, value |-> [Version |-> ""]]

\* JSON.stringify(value, null, 2)
JsonStringify(value) ==
    IF value = [Version |-> "1.0.0"] THEN ManifestPretty ELSE "{}"

\* The files of the repository in a working copy at root.
RepoDirs(root) == {root, Append(root, GitDirName)}

RepoFiles(root) ==
    {Append(Append(root, GitDirName), <<"HEAD">>)} \cup
    (IF manifest = ManifestAbsent THEN {} ELSE {Append(root, ManifestName)})

\* A reading that returns the text of the file as it is.
ReadManifestAsIs(repositoryPath) ==
    LET file == Lookup(PathJoin(repositoryPath, ManifestName))
    IN  IF file.ok /\ file.at \in fsFiles THEN manifest ELSE "null"

\* readWinCCOAPackageJson: the manifest re-serialized, null when the file is
\* missing, cannot be read or is not JSON.
ReadWinCCOAPackageJson(repositoryPath) ==
    LET file == Lookup(PathJoin(repositoryPath, ManifestName))
    IN  IF file.ok /\ file.at \in fsFiles /\ JsonParse(manifest).ok
        THEN JsonStringify(JsonParse(manifest).value)
        ELSE "null"

\* The messages of the errors git and simple-git raise, each with the
\* phrases of the catch block it contains.
MsgNoDirectory ==        \* Cannot use simple-git on a directory that does not exist
    [text |-> "no directory", has |-> {"does not exist"}]
MsgMkdirFailed ==        \* ENOTDIR: not a directory, mkdir
    [text |-> "mkdir failed", has |-> {}]
MsgNotARepository ==     \* fatal: not a git repository (or any of the parent directories): .git
    [text |-> "not a git repository", has |-> {}]
MsgRemoteNotFound ==     \* remote: Repository not found. fatal: repository '...' not found
    [text |-> "remote not found", has |-> {"not found"}]
MsgRemoteMissing ==      \* fatal: repository '...' does not exist
    [text |-> "remote missing", has |-> {"does not exist"}]
MsgBranchNotFound ==     \* fatal: Remote branch ... not found in upstream origin
    [text |-> "branch not found", has |-> {"not found"}]
MsgDestinationExists ==  \* fatal: destination path '...' already exists and is not an empty directory.
    [text |-> "destination exists", has |-> {"already exists", "destination path"}]
MsgPermissionDenied ==   \* Permission denied (publickey). fatal: Could not read from remote repository.
    [text |-> "permission denied", has |-> {"Permission denied"}]
MsgAuthenticationFailed == \* fatal: Authentication failed for '...'
    [text |-> "authentication failed", has |-> {}]
MsgNetwork ==            \* fatal: unable to access '...': Could not resolve host
    [text |-> "network", has |-> {}]
MsgMergeConflict ==      \* CONFLICT (content): Merge conflict in ...
    [text |-> "merge conflict", has |-> {}]

\* error.message.includes(phrase)
MessageIncludes(msg, phrase) == phrase \in msg.has

\* The catch block of cloneRepository: the error thrown for a message.
SyncError(msg) ==
    IF \/ MessageIncludes(msg, "repository not found")
       \/ MessageIncludes(msg, "could not read from remote repository")
       \/ MessageIncludes(msg, "not found")
       \/ MessageIncludes(msg, "does not exist")
    THEN "Repository not found"
    ELSE IF \/ MessageIncludes(msg, "already exists")
            \/ MessageIncludes(msg, "destination path")
    THEN "Directory already exists"
    ELSE IF \/ MessageIncludes(msg, "Permission denied")
            \/ MessageIncludes(msg, "authentication")
    THEN "Authentication failed"
    ELSE "Failed to clone repository"

\* "https://example/org/demo/" and "https://example/org/demo/.git"
DemoUrlSlash == SubSeq(DemoUrl, 1, Len(DemoUrl) - Len(GitSuffix)) \o <<"/">>
DemoUrlGitDir == DemoUrlSlash \o GitSuffix

\* "https://example/org/plain", the name of a directory that is there.
PlainUrl ==
    SubSeq(DemoUrl, 1, Len(DemoUrl) - Len(<<"d", "e", "m", "o">> \o GitSuffix))
        \o <<"p", "l", "a", "i", "n">>

\* The urls the remote repository answers to.
RemoteUrls == {DemoUrl, DemoUrlSlash, DemoUrlGitDir, PlainUrl}

SyncUrls == RemoteUrls \cup {PlainUrl, <<>>}

\* No target directory, a plain directory, a repository, a path that does
\* not exist, a regular file.
SyncHints ==
    { <<>>,
      <<"/", "w", "/", "c">>, <<"/", "w", "/", "r">>,
      <<"/", "w", "/", "n", "/", "m">>,
      <<"/", "w", "/", "f">> }

SyncBranches == {<<>>, <<"b">>}

\* The branch asked for and the manifest of the repository: every branch
\* and every manifest, not every pair of them.
SyncOptions ==
    { [branch |-> <<>>, manifest |-> ManifestAbsent],
      [branch |-> <<"b">>, manifest |-> ManifestCompact],
      [branch |-> <<>>, manifest |-> ManifestPretty],
      [branch |-> <<"b">>, manifest |-> ManifestBroken] }

PullFailures == {MsgPermissionDenied, MsgMergeConflict}

CloneFailures == {MsgNetwork, MsgPermissionDenied, MsgRemoteNotFound}

InitSync ==
    /\ syncPc = "idle"
    /\ syncCalls = 0
    /\ \/ /\ syncUrlGiven = TRUE
          /\ syncUrl \in SyncUrls
          /\ syncHint \in SyncHints
          /\ \E options \in SyncOptions :
                 syncBranch = options.branch /\ manifest = options.manifest
       \/ /\ syncUrlGiven = FALSE
          /\ syncUrl = <<>>
          /\ syncHint \in {<<>>, <<"/", "w", "/", "r">>}
          /\ syncBranch = <<>>
          /\ manifest = ManifestAbsent
    /\ syncTarget = NoTarget
    /\ syncExisted = FALSE
    /\ syncCloned = FALSE
    /\ upstream = 0
    /\ pulled = [root \in {<<<<"w">>, <<"r">>>>} |-> 0]
    /\ gitLog = <<>>
    /\ syncLog = <<>>
    /\ fsDirs = SampleDirs \cup {<<<<"w">>, <<"p", "l", "a", "i", "n">>>>}
    /\ fsFiles = SampleFiles \cup
                 (IF manifest = ManifestAbsent THEN {}
                  ELSE {<<<<"w">>, <<"r">>, ManifestName>>})
    /\ now = 0
    /\ IdleResolve
    /\ IdleRegister
    /\ IdleImport
    /\ IdleList
    /\ IdleClassify
    /\ IdlePull

\* The entry of syncLog for a call that ended: what it resolved and found,
\* the error thrown or "ok", the message of the underlying error, and what
\* it returned.
Ended(target, existed, cloned, outcome, cause, changes, fileContent) ==
    [call |-> IF syncPc = "idle" THEN syncCalls + 1 ELSE syncCalls,
     target |-> target, existed |-> existed, cloned |-> cloned,
     outcome |-> outcome, cause |-> cause, changes |-> changes,
     fileContent |-> fileContent, upstream |-> upstream]

\* An entry of gitLog: what the call in progress does to the file system
\* and with git.
Event(op, ev, dir, args) ==
    [call |-> IF syncPc = "idle" THEN syncCalls + 1 ELSE syncCalls,
     op |-> op, ev |-> ev, dir |-> dir, args |-> args]

\* The history kept: the calls that ended are compared two by two, so the
\* last two of them and what these and the call in progress did.
KeepCalls(log) == IF Len(log) > 2 THEN Tail(log) ELSE log

KeepEvents(log, call) == SelectSeq(log, LAMBDA e : e.call + 1 >= call)

\* Clone options that leave the branch out.
CloneOptionsNoBranch(branch) == <<>>

\* cloneOptions
CloneOptions(branch) ==
    IF branch # <<>> THEN <<<<"--branch">>, branch>> ELSE <<>>

\* MarketplaceService.cloneRepository and AddOnHandler.cloneRepository up to
\* the first await: a request without url is refused; else the target is
\* resolved and either git pull is issued in the path that exists, or the
\* parent directory is made and git clone is issued in it.
SyncCall ==
    /\ syncPc = "idle"
    /\ syncCalls < MaxSyncCalls
    /\ syncCalls' = syncCalls + 1
    /\ LET target == ResolveTarget(syncUrl, syncHint, now)
           parentDir == PathDirname(target.fullPath)
           existed == ExistsSync(target.fullPath)
           cloneStart ==
               Event("clone", "start", parentDir,
                     <<syncUrl, target.repoName, CloneOptions(syncBranch)>>)
           thrown(msg) ==
               /\ syncPc' = "idle"
               /\ syncLog' = KeepCalls(Append(syncLog,
                                    Ended(target, existed, FALSE,
                                          SyncError(msg), msg.text, 0, "none")))
               /\ gitLog' = KeepEvents(gitLog, syncCalls + 1)
               /\ UNCHANGED <<fsDirs, fsFiles>>
       IN  IF ~syncUrlGiven
           THEN /\ syncPc' = "idle"
                /\ syncLog' = KeepCalls(Append(syncLog,
                                     Ended(NoTarget, FALSE, FALSE, "Missing url",
                                           "none", 0, "none")))
                /\ gitLog' = KeepEvents(gitLog, syncCalls + 1)
                /\ UNCHANGED <<syncTarget, syncExisted, syncCloned, fsDirs,
                               fsFiles>>
           ELSE /\ syncTarget' = target
                /\ syncExisted' = existed
                /\ syncCloned' = (~existed /\ (IF ExistsSync(parentDir)
                                               THEN SimpleGitOk(parentDir)
                                               ELSE MkdirSync(parentDir).ok))
                /\ IF existed
                   THEN IF SimpleGitOk(target.fullPath)
                        THEN /\ syncPc' = "pull"
                             /\ gitLog' = Append(gitLog,
                                                 Event("pull", "start",
                                                       target.fullPath, <<>>))
                             /\ UNCHANGED <<syncLog, fsDirs, fsFiles>>
                        ELSE thrown(MsgNoDirectory)
                   ELSE IF ExistsSync(parentDir)
                   THEN IF SimpleGitOk(parentDir)
                        THEN /\ syncPc' = "clone"
                             /\ gitLog' = Append(gitLog, cloneStart)
                             /\ UNCHANGED <<syncLog, fsDirs, fsFiles>>
                        ELSE thrown(MsgNoDirectory)
                   ELSE IF MkdirSync(parentDir).ok
                   THEN /\ fsDirs' = fsDirs \cup MkdirSync(parentDir).made
                        /\ syncPc' = "clone"
                        /\ gitLog' = gitLog \o
                                     <<Event("mkdir", "done", parentDir, <<>>),
                                       cloneStart>>
                        /\ UNCHANGED <<syncLog, fsFiles>>
                   ELSE thrown(MsgMkdirFailed)
    /\ UNCHANGED <<syncUrl, syncUrlGiven, syncHint, syncBranch, upstream,
                   pulled, manifest, now, resolveVars, notSyncVars>>

\* The messages git clone can fail with here, none when only success is
\* possible as far as the url and the destination go.
CloneMustFail ==
    LET dest == CloneDestination(PathDirname(syncTarget.fullPath),
                                 syncTarget.repoName)
    IN  IF syncUrl \notin RemoteUrls THEN {MsgRemoteMissing}
        ELSE IF ~DestinationFree(dest) THEN {MsgDestinationExists}
        ELSE {}

\* git clone succeeds: the working copy is there and git pull is issued in it.
CloneDone ==
    /\ syncPc = "clone"
    /\ CloneMustFail = {}
    /\ LET dest == CloneDestination(PathDirname(syncTarget.fullPath),
                                    syncTarget.repoName).at
       IN  /\ fsDirs' = fsDirs \cup RepoDirs(dest)
           /\ fsFiles' = fsFiles \cup RepoFiles(dest)
           /\ pulled' = [root \in DOMAIN pulled \cup {dest} |->
                            IF root = dest THEN upstream ELSE pulled[root]]
    /\ syncPc' = "pull"
    /\ gitLog' = gitLog \o
                 <<Event("clone", "ok", <<>>, <<>>),
                   Event("pull", "start", syncTarget.fullPath, <<>>)>>
    /\ UNCHANGED <<syncCalls, syncUrl, syncUrlGiven, syncHint, syncBranch, syncTarget,
                   syncExisted, syncCloned, upstream, manifest, syncLog, now,
                   resolveVars, notSyncVars>>

\* The messages git clone can fail with.
CloneMessages ==
    IF syncPc # "clone" THEN {}
    ELSE IF CloneMustFail # {} THEN CloneMustFail
    ELSE CloneFailures \cup
         (IF syncBranch # <<>> THEN {MsgBranchNotFound} ELSE {})

\* git clone fails with msg: the catch block throws.
CloneFails(msg) ==
    /\ syncPc = "clone"
    /\ syncPc' = "idle"
    /\ gitLog' = KeepEvents(Append(gitLog, Event("clone", "failed", <<>>, <<>>)),
                            syncCalls)
    /\ syncLog' = KeepCalls(Append(syncLog,
                         Ended(syncTarget, syncExisted, syncCloned,
                               SyncError(msg), msg.text, 0, "none")))
    /\ UNCHANGED <<syncCalls, syncUrl, syncUrlGiven, syncHint, syncBranch, syncTarget,
                   syncExisted, syncCloned, upstream, pulled, manifest, fsVars,
                   resolveVars, notSyncVars>>

\* git pull succeeds in the working copy found from fullPath: it brings the
\* upstream commits the working copy lacks, and the call returns.
PullDone ==
    /\ syncPc = "pull"
    /\ HasWorkTree(Lookup(syncTarget.fullPath).at)
    /\ LET root == WorkTree(Lookup(syncTarget.fullPath).at)
       IN  /\ pulled' = [pulled EXCEPT ![root] = upstream]
           /\ syncLog' = KeepCalls(Append(syncLog,
                                Ended(syncTarget, syncExisted, syncCloned,
                                      "ok", "none", upstream - pulled[root],
                                      ReadWinCCOAPackageJson(syncTarget.fullPath))))
    /\ syncPc' = "idle"
    /\ gitLog' = KeepEvents(Append(gitLog, Event("pull", "ok", <<>>, <<>>)),
                            syncCalls)
    /\ UNCHANGED <<syncCalls, syncUrl, syncUrlGiven, syncHint, syncBranch, syncTarget,
                   syncExisted, syncCloned, upstream, manifest, fsVars,
                   resolveVars, notSyncVars>>

\* The messages git pull can fail with.
PullMessages ==
    IF syncPc # "pull" THEN {}
    ELSE IF HasWorkTree(Lookup(syncTarget.fullPath).at) THEN PullFailures
    ELSE {MsgNotARepository}

\* git pull fails with msg: the catch block throws.
PullFails(msg) ==
    /\ syncPc = "pull"
    /\ syncPc' = "idle"
    /\ gitLog' = KeepEvents(Append(gitLog, Event("pull", "failed", <<>>, <<>>)),
                            syncCalls)
    /\ syncLog' = KeepCalls(Append(syncLog,
                         Ended(syncTarget, syncExisted, syncCloned,
                               SyncError(msg), msg.text, 0, "none")))
    /\ UNCHANGED <<syncCalls, syncUrl, syncUrlGiven, syncHint, syncBranch, syncTarget,
                   syncExisted, syncCloned, upstream, pulled, manifest, fsVars,
                   resolveVars, notSyncVars>>

\* A commit is pushed to the remote repository.
Push ==
    /\ upstream < MaxPushes
    /\ upstream' = upstream + 1
    /\ UNCHANGED <<syncPc, syncCalls, syncUrl, syncUrlGiven, syncHint, syncBranch,
                   syncTarget, syncExisted, syncCloned, pulled, manifest,
                   gitLog, syncLog, fsVars, resolveVars, notSyncVars>>

NextSync ==
    \/ SyncCall
    \/ CloneDone
    \/ \E msg \in CloneMessages : CloneFails(msg)
    \/ PullDone
    \/ \E msg \in PullMessages : PullFails(msg)
    \/ Push
    \/ Tick

SpecSync == InitSync /\ [][NextSync]_vars

\* ------------------------------------------------------------------------
\* The catch blocks of cloneRepository and pullRepository
\* ------------------------------------------------------------------------

\* The phrases the two catch blocks look for in error.message.
KnownPhrases ==
    {"repository not found", "could not read from remote repository",
     "not found", "does not exist", "already exists", "destination path",
     "Permission denied", "authentication", "not a git repository",
     "merge conflict"}

\* The phrases of a text: a text with "repository not found" in it has
\* "not found" in it.
PhraseSets ==
    {has \in SUBSET KnownPhrases :
         "repository not found" \in has => "not found" \in has}

ErrorTexts == {"fatal: e1", "error: e2"}

ErrorMessages == {[text |-> text, has |-> has] :
                      text \in ErrorTexts, has \in PhraseSets}

\* A catch block whose last branch leaves error.message out.
SyncThrownWithoutMessage(msg) == [kind |-> SyncError(msg), includes |-> {}]

\* The catch block of cloneRepository: the error thrown, with the original
\* message where the text thrown quotes it.
SyncThrown(msg) ==
    [kind |-> SyncError(msg),
     includes |-> IF SyncError(msg) = "Failed to clone repository"
                  THEN {msg.text} ELSE {}]

\* The catch block of pullRepository.
PullError(msg) ==
    IF MessageIncludes(msg, "not a git repository")
    THEN "Directory is not a git repository"
    ELSE IF MessageIncludes(msg, "does not exist")
    THEN "Repository directory does not exist"
    ELSE IF \/ MessageIncludes(msg, "Permission denied")
            \/ MessageIncludes(msg, "authentication")
    THEN "Authentication failed"
    ELSE IF MessageIncludes(msg, "merge conflict")
    THEN "Merge conflicts detected"
    ELSE "Failed to pull repository"

PullThrown(msg) ==
    [kind |-> PullError(msg),
     includes |-> IF PullError(msg) = "Failed to pull repository"
                  THEN {msg.text} ELSE {}]

InitClassify ==
    /\ errMessage \in ErrorMessages
    /\ cloneThrown = NoError
    /\ pullThrown = NoError
    /\ IdleRegister
    /\ IdleImport
    /\ IdleList
    /\ IdleFs
    /\ IdleResolve
    /\ IdleSync
    /\ IdlePull

\* The error is caught, by the one catch block and by the other.
Catch ==
    /\ cloneThrown = NoError
    /\ cloneThrown' = SyncThrown(errMessage)
    /\ pullThrown' = PullThrown(errMessage)
    /\ UNCHANGED <<errMessage, notClassifyVars>>

NextClassify == Catch

SpecClassify == InitClassify /\ [][NextClassify]_vars

\* ------------------------------------------------------------------------
\* AddOnHandler.pullRepository
\* ------------------------------------------------------------------------

MaxPullCalls == 2

\* String.prototype.includes
StrIncludes(s, sub) ==
    \E i \in 0..(Len(s) - Len(sub)) : SubSeq(s, i + 1, i + Len(sub)) = sub

\* The characters of a phrase of the catch blocks.
PhraseChars(phrase) ==
    CASE phrase = "repository not found" ->
           <<"r", "e", "p", "o", "s", "i", "t", "o", "r", "y", " ", "n",
             "o", "t", " ", "f", "o", "u", "n", "d">>
      [] phrase = "could not read from remote repository" ->
           <<"c", "o", "u", "l", "d", " ", "n", "o", "t", " ", "r", "e",
             "a", "d", " ", "f", "r", "o", "m", " ", "r", "e", "m", "o",
             "t", "e", " ", "r", "e", "p", "o", "s", "i", "t", "o", "r",
             "y">>
      [] phrase = "not found" ->
           <<"n", "o", "t", " ", "f", "o", "u", "n", "d">>
      [] phrase = "does not exist" ->
           <<"d", "o", "e", "s", " ", "n", "o", "t", " ", "e", "x", "i",
             "s", "t">>
      [] phrase = "already exists" ->
           <<"a", "l", "r", "e", "a", "d", "y", " ", "e", "x", "i", "s",
             "t", "s">>
      [] phrase = "destination path" ->
           <<"d", "e", "s", "t", "i", "n", "a", "t", "i", "o", "n", " ",
             "p", "a", "t", "h">>
      [] phrase = "Permission denied" ->
           <<"P", "e", "r", "m", "i", "s", "s", "i", "o", "n", " ", "d",
             "e", "n", "i", "e", "d">>
      [] phrase = "authentication" ->
           <<"a", "u", "t", "h", "e", "n", "t", "i", "c", "a", "t", "i",
             "o", "n">>
      [] phrase = "not a git repository" ->
           <<"n", "o", "t", " ", "a", " ", "g", "i", "t", " ", "r", "e",
             "p", "o", "s", "i", "t", "o", "r", "y">>
      [] phrase = "merge conflict" ->
           <<"m", "e", "r", "g", "e", " ", "c", "o", "n", "f", "l", "i",
             "c", "t">>

\* The phrases a text contains.
PhrasesOf(text) ==
    {phrase \in KnownPhrases : StrIncludes(text, PhraseChars(phrase))}

\* `Repository directory does not exist: ${repositoryDirectory}`
MsgDirectoryMissing(dir) ==
    [text |-> "Repository directory does not exist",
     has |-> PhrasesOf(
           <<"R", "e", "p", "o", "s", "i", "t", "o", "r", "y", " ", "d",
             "i", "r", "e", "c", "t", "o", "r", "y", " ", "d", "o", "e",
             "s", " ", "n", "o", "t", " ", "e", "x", "i", "s", "t", ":",
             " ">>
           \o dir)]

\* `Directory is not a git repository: ${repositoryDirectory}`
MsgNoGitDir(dir) ==
    [text |-> "Directory is not a git repository",
     has |-> PhrasesOf(
           <<"D", "i", "r", "e", "c", "t", "o", "r", "y", " ", "i", "s",
             " ", "n", "o", "t", " ", "a", " ", "g", "i", "t", " ", "r",
             "e", "p", "o", "s", "i", "t", "o", "r", "y", ":", " ">>
           \o dir)]

\* The directories pullRepository is called with: the repository by its
\* absolute and its relative name, the plain directory, a path that does
\* not exist, the file, and "/w/not a git repository", which does not exist.
PullDirs ==
    { <<"/", "w", "/", "r">>, <<"r">>, <<"/", "w", "/", "c">>,
      <<"/", "w", "/", "n">>, <<"/", "w", "/", "f">>,
      <<"/", "w", "/">> \o PhraseChars("not a git repository") }

InitPull ==
    /\ fsDirs = SampleDirs
    /\ fsFiles = SampleFiles
    /\ now = 0
    /\ IdlePull
    /\ IdleRegister
    /\ IdleImport
    /\ IdleList
    /\ IdleResolve
    /\ IdleSync
    /\ IdleClassify

\* How a pullRepository call ended: whether git.pull was called, the error
\* its catch block caught and the one it threw, and whether the text thrown
\* names the directory (every branch but the last one does).
PullEnded(dir, invoked, msg) ==
    [dir |-> dir, invoked |-> invoked, caught |-> msg.text,
     outcome |-> PullError(msg),
     names |-> PullError(msg) # "Failed to pull repository"]

\* pullRepository up to the await: an error is thrown for a directory that
\* does not exist and for one without ".git" in it, and caught by the
\* function's own catch block; else git.pull is called.
PullRepositoryCall(dir) ==
    /\ pullPc = "idle"
    /\ Len(pullLog) < MaxPullCalls
    /\ pullDir' = dir
    /\ IF ~ExistsSync(dir)
       THEN /\ pullLog' = Append(pullLog,
                                 PullEnded(dir, FALSE, MsgDirectoryMissing(dir)))
            /\ UNCHANGED pullPc
       ELSE IF ~ExistsSync(PathJoin(dir, GitDirName))
       THEN /\ pullLog' = Append(pullLog,
                                 PullEnded(dir, FALSE, MsgNoGitDir(dir)))
            /\ UNCHANGED pullPc
       ELSE IF ~SimpleGitOk(dir)
       THEN /\ pullLog' = Append(pullLog,
                                 PullEnded(dir, FALSE, MsgNoDirectory))
            /\ UNCHANGED pullPc
       ELSE /\ pullPc' = "pull"
            /\ UNCHANGED pullLog
    /\ UNCHANGED <<fsVars, notPullVars>>

\* git pull succeeds and the call returns its summary.
PullRepositoryDone ==
    /\ pullPc = "pull"
    /\ pullPc' = "idle"
    /\ pullLog' = Append(pullLog,
                         [dir |-> pullDir, invoked |-> TRUE, caught |-> "none",
                          outcome |-> "ok", names |-> TRUE])
    /\ UNCHANGED <<pullDir, fsVars, notPullVars>>

\* git pull fails with msg: the catch block throws.
PullRepositoryFails(msg) ==
    /\ pullPc = "pull"
    /\ pullPc' = "idle"
    /\ pullLog' = Append(pullLog, PullEnded(pullDir, TRUE, msg))
    /\ UNCHANGED <<pullDir, fsVars, notPullVars>>

NextPull ==
    \/ \E dir \in PullDirs : PullRepositoryCall(dir)
    \/ PullRepositoryDone
    \/ \E msg \in PullFailures : PullRepositoryFails(msg)

SpecPull == InitPull /\ [][NextPull]_vars

\* ========================================================================
\* Claims
\* ========================================================================

\* The names of the managers whose addManager call was issued, in order.
AttachedNames == [i \in 1..Len(attachLog) |-> attachLog[i].name]

\* The tier of a completed command's exit code.
ExitTier(exitCode) ==
    Classify(ToNumber(exitCode), SUCCESS_EXIT_CODES, WARNING_EXIT_CODES)

\* C1: once register has entered the manager loop and is over, an addManager
\* call was issued for every manager of config.Managers, whichever calls
\* failed.
C1_EveryManagerAttempted ==
    (regPc = "done" /\ attachLog # <<>>) => Len(attachLog) = Len(regManagers)

\* C2: the addManager calls are issued in the order of config.Managers, each
\* manager at most once, a call only after the previous one has completed,
\* and never two calls are in flight.
C2_AttachInOrderOneAtATime ==
    /\ IsPrefix(AttachedNames, regManagers)
    /\ Cardinality(inFlight) <= 1
    /\ \A i \in 1..(Len(attachLog) - 1) : attachLog[i].result # "pending"

\* C2 witness: three managers, the attachment of the second failed, and the
\* third was attached after it.
C2_Witness ==
    /\ regPc = "done"
    /\ Len(regManagers) = 3
    /\ Len(attachLog) = 3
    /\ attachLog[2].result = "err"
    /\ attachLog[3].result = "ok"

\* C3: when an install or build command ended with an exit code of the
\* Error tier, register is over, has thrown to its caller and has issued no
\* addManager call.
C3_InstallErrorAborts ==
    (\E i \in 1..Len(cmdLog) :
        cmdLog[i].exitCode # Pending /\ ExitTier(cmdLog[i].exitCode) = "Error")
    => (regPc = "done" /\ regOutcome = "thrown" /\ attachLog = <<>>)

\* C3 witness: the build command of the second directory fails with exit
\* code 1 in a call that has managers to attach.
C3_Witness ==
    /\ regPc = "done"
    /\ regManagers # <<>>
    /\ Len(cmdLog) = 4
    /\ cmdLog[4].cmd = "npx tsc"
    /\ cmdLog[4].exitCode = JsInt(1)
    /\ regOutcome = "thrown"

\* C4: when register is over and the install phase ran, the install command
\* was issued in every discovered directory, whichever commands failed.
C4_EveryDirInstallAttempted ==
    (regPc = "done" /\ cmdLog # <<>>) =>
        \A d \in Range(dirs) :
            \E i \in 1..Len(cmdLog) :
                cmdLog[i].dir = d /\ cmdLog[i].cmd = "npm install"

\* The exit codes the sets of a classifier are drawn from.
ClassifierCodes == {0, 1, 55}

Tiers == {"Success", "Warning", "Error"}

\* C5: an integer exit code is classified as exactly one tier, as Error when
\* it is in neither set, for all success and warning sets; with {0} and {55},
\* 0 is Success, 55 Warning, 1 Error; and import returns true exactly when
\* the exit code of the command is in one of its two sets.
C5_ClassificationTotalFailClosed ==
    (impPc = "done" /\ impExitCode.t = "int") =>
        LET e == impExitCode.n
            tier == Classify(NumInt(e), SUCCESS_EXIT_CODES, WARNING_EXIT_CODES)
        IN  /\ \A S, W \in SUBSET ClassifierCodes :
                 /\ Classify(NumInt(e), S, W) \in Tiers
                 /\ e \notin S \cup W => Classify(NumInt(e), S, W) = "Error"
            /\ e = 0 => tier = "Success"
            /\ e = 55 => tier = "Warning"
            /\ e = 1 => tier = "Error"
            /\ impReturn <=> e \in SUCCESS_EXIT_CODES \cup WARNING_EXIT_CODES

\* C5 witness: the import command ended with the warning code 55 and import
\* returned true.
C5_Witness == impPc = "done" /\ impExitCode = JsInt(55) /\ impReturn

\* C6: at most maxPages page requests are issued, no request follows a page
\* of fewer than perPage entries, and the call is never stuck before it ends.
C6_PaginationTerminates ==
    /\ Len(requests) <= maxPages
    /\ \A i \in 1..Len(responses) :
          Len(responses[i]) < perPage => Len(requests) = i
    /\ listPc \in {"loop", "await"} => ENABLED NextList

\* C6 witness: every page was full and the call returned after maxPages
\* requests.
C6_Witness ==
    /\ listOutcome = "returned"
    /\ maxPages >= 2
    /\ Len(requests) = maxPages
    /\ \A i \in 1..Len(responses) : Len(responses[i]) = perPage

RECURSIVE ConcatPages(_)
\* The summaries of the entries of the pages, page after page.
ConcatPages(pages) ==
    IF pages = <<>> THEN <<>>
    ELSE MapRepos(Head(pages)) \o ConcatPages(Tail(pages))

\* C7: the pages requested are 1, 2, ..., k, a request is issued only when
\* every earlier request was answered, and allRepos is the concatenation of
\* the answered pages in fetch order.
C7_PagesSequentialConcatenated ==
    /\ requests = [i \in 1..Len(requests) |-> i]
    /\ Len(responses) <= Len(requests)
    /\ Len(requests) <= Len(responses) + 1
    /\ listPc = "loop" => Len(requests) = Len(responses)
    /\ allRepos = ConcatPages(responses)

\* C7 witness: the call returned the entries of two different pages.
C7_Witness ==
    /\ listOutcome = "returned"
    /\ Len(responses) = 2
    /\ responses[1] # responses[2]
    /\ Len(allRepos) = 3

\* ---- path resolution --------------------------------------------------

HasSlash(s) == \E i \in 1..Len(s) : s[i] = "/"

\* The position of the last "/" of s, 0 when it has none.
LastSlash(s) ==
    IF HasSlash(s)
    THEN CHOOSE i \in 1..Len(s) : s[i] = "/" /\ \A j \in (i + 1)..Len(s) : s[j] # "/"
    ELSE 0

\* What follows the last "/" of the url; the whole url when it has no "/".
LastSegment(url) == Drop(url, LastSlash(url))

WithoutGitSuffix(s) ==
    IF IsSuffix(GitSuffix, s) THEN SubSeq(s, 1, Len(s) - Len(GitSuffix)) ELSE s

\* The url ends in a "/" followed by a segment that is not empty.
UrlHasName(url) == HasSlash(url) /\ LastSegment(url) # <<>>

\* The name comes from the url: no target directory is given, or it is an
\* existing directory that is not a repository.
NameFromUrl(hint) ==
    \/ hint = <<>>
    \/ LET dir == PathResolve(<<>>, hint)
       IN  IsDirectory(dir) /\ ~ExistsSync(PathJoin(dir, GitDirName))

FallbackNames == {FallbackName(t) : t \in 0..MaxNow}

\* C9 (as stated): for a fixed file system, two resolutions of the same url
\* and the same target directory yield the same repoName and the same
\* fullPath, for every url, also one no name can be extracted from.
C9_ResolutionDeterministic ==
    Len(resolved) = 2 => resolved[1].target = resolved[2].target

\* C9 (amended): two resolutions of the same url and target directory in the
\* same file system yield the same repoName and fullPath, whenever they are
\* made, unless the name is taken from a url that does not end in "/" and a
\* non-empty segment; then the name is the time-based fallback and differs
\* between resolutions made at different times.
C9_DeterministicUnlessFallback ==
    Len(resolved) = 2 =>
        IF NameFromUrl(resHint) /\ ~UrlHasName(resUrl)
        THEN /\ resolved[1].target.repoName \in FallbackNames
             /\ resolved[2].target.repoName \in FallbackNames
             /\ (resolved[1].at # resolved[2].at =>
                    resolved[1].target.repoName # resolved[2].target.repoName)
        ELSE resolved[1].target = resolved[2].target

\* Two resolutions at different times into a plain directory, the name taken
\* from the url, with the same result.
C9_Witness ==
    /\ Len(resolved) = 2
    /\ resolved[1].at # resolved[2].at
    /\ resUrl = DemoUrl
    /\ resHint = <<"/", "w", "/", "c">>
    /\ resolved[1].target = resolved[2].target
    /\ resolved[2].target.fullPath =
           <<"/", "w", "/", "c", "/", "d", "e", "m", "o">>

\* C10 (as stated): without a target directory, repoName is the last segment
\* of the url with a trailing ".git" removed, it holds no path separator,
\* and fullPath is the default directory, "/", repoName.
C10_NameIsLastSegment ==
    resHint = <<>> =>
        \A i \in 1..Len(resolved) :
            LET r == resolved[i].target
            IN  /\ r.repoName = WithoutGitSuffix(LastSegment(resUrl))
                /\ ~HasSlash(r.repoName)
                /\ r.fullPath = DefaultDirectory \o <<"/">> \o r.repoName

\* C10 (amended): without a target directory, when the url ends in "/" and a
\* non-empty segment, repoName is that segment with a trailing ".git"
\* removed, unless the segment is ".git" itself, which is kept; otherwise
\* repoName is the time-based fallback name.  repoName holds no "/", and
\* fullPath is the default directory, "/", repoName, unless repoName is "."
\* or "..", which resolve to the default directory and to its parent.
C10_NameIsLastSegmentOrFallback ==
    resHint = <<>> =>
        \A i \in 1..Len(resolved) :
            LET r == resolved[i].target
                seg == LastSegment(resUrl)
            IN  /\ IF UrlHasName(resUrl)
                   THEN r.repoName =
                            IF seg = GitSuffix THEN seg ELSE WithoutGitSuffix(seg)
                   ELSE r.repoName = FallbackName(resolved[i].at)
                /\ ~HasSlash(r.repoName)
                /\ r.fullPath =
                       CASE r.repoName = Dot -> DefaultDirectory
                         [] r.repoName = DotDot -> PathDirname(DefaultDirectory)
                         [] OTHER -> DefaultDirectory \o <<"/">> \o r.repoName

\* The scenario: "https://example/org/demo.git" without a target directory
\* resolves to "demo" in the default directory.
C10_Witness ==
    /\ resHint = <<>>
    /\ resUrl = DemoUrl
    /\ Len(resolved) >= 1
    /\ resolved[1].target.repoName = <<"d", "e", "m", "o">>
    /\ resolved[1].target.fullPath = <<"/", "w", "/", "d", "e", "m", "o">>

\* ---- clone or synchronize ---------------------------------------------

\* Call i succeeded and call i + 1 followed with no upstream change.
Repeated(i) ==
    /\ i + 1 <= Len(syncLog)
    /\ syncLog[i].outcome = "ok"
    /\ syncLog[i + 1].upstream = syncLog[i].upstream

\* Call i + 1 went to the same path, issued no clone and, when it succeeded,
\* pulled no change.
NoOpUpdate(i) ==
    /\ syncLog[i + 1].target.fullPath = syncLog[i].target.fullPath
    /\ ~syncLog[i + 1].cloned
    /\ (syncLog[i + 1].outcome = "ok" => syncLog[i + 1].changes = 0)

\* Call i named the working copy after the url.
NamedAfterUrl(i) ==
    \/ syncHint = <<>>
    \/ syncLog[i].target.fullPath #
           (IF IsAbsolute(syncHint) THEN syncHint
            ELSE PathResolve(<<>>, syncHint))

\* C8 (as stated): for every reference, after a first successful call a
\* second call with the same reference and no upstream change resolves to
\* the same local path, performs no clone and reports no change.
C8_SyncIdempotent ==
    \A i \in 1..Len(syncLog) : Repeated(i) => NoOpUpdate(i)

\* C8 (amended): after a first successful call, a second call with the same
\* reference and no upstream change resolves to the same local path,
\* performs no clone and, when it succeeds, pulls no change, unless the
\* first call named the working copy after the url and either the url does
\* not end in "/" and a non-empty segment (the name is then the time-based
\* fallback, new at every call) or a target directory was given and the
\* last segment of the url is ".git" (the clone then turns the target
\* directory into what the second call takes for a repository).
C8_SyncIdempotentForUrlNames ==
    \A i \in 1..Len(syncLog) :
        /\ Repeated(i)
        /\ ~(/\ NamedAfterUrl(i)
             /\ \/ ~UrlHasName(syncUrl)
                \/ syncHint # <<>> /\ LastSegment(syncUrl) = GitSuffix)
        => NoOpUpdate(i)

\* A first call that cloned into a plain directory and a second one that
\* only pulled there, without change.
C8_Witness ==
    /\ Len(syncLog) = 2
    /\ syncHint = <<"/", "w", "/", "c">>
    /\ Repeated(1)
    /\ syncLog[1].cloned
    /\ syncLog[2].outcome = "ok"
    /\ ~syncLog[2].cloned
    /\ syncLog[2].changes = 0
    /\ syncLog[2].target.fullPath =
           <<"/", "w", "/", "c", "/", "d", "e", "m", "o">>

\* ---- the decision tree for a target directory ---------------------------

\* The name extractRepoName gives for a url at time t: the last segment
\* without a trailing ".git" (".git" itself kept), or the fallback name.
UrlName(url, t) ==
    IF UrlHasName(url)
    THEN IF LastSegment(url) = GitSuffix THEN GitSuffix
         ELSE WithoutGitSuffix(LastSegment(url))
    ELSE FallbackName(t)

\* The target directory as resolution uses it: an absolute one as given, a
\* relative one below the working directory.
HintPath(hint) ==
    IF hint[1] = "/" THEN hint ELSE Cwd \o <<"/">> \o hint

\* The last non-empty segment of a path.
LastName(p) ==
    LET named == {i \in 1..Len(Fields(p)) : Fields(p)[i] # <<>>}
    IN  IF named = {} THEN <<>>
        ELSE Fields(p)[CHOOSE i \in named : \A j \in named : j <= i]

\* C11: with a target directory, absolute or relative to the working
\* directory: an existing directory with a ".git" entry is the target itself,
\* named by its last segment; an existing directory without one contains the
\* target, which is its entry named after the url; a path that does not
\* exist or is not a directory is the target itself, named by its last
\* segment.
C11_HintDecisionTree ==
    resHint # <<>> =>
        \A i \in 1..Len(resolved) :
            LET r == resolved[i].target
                h == HintPath(resHint)
                at == Lookup(h)
                isDirectory == at.ok /\ IsDir(at.at)
                marker == IsDir(Append(at.at, GitDirName)) \/
                          Append(at.at, GitDirName) \in fsFiles
            IN  IF isDirectory /\ ~marker
                THEN /\ r.repoName = UrlName(resUrl, resolved[i].at)
                     /\ IsAbsolute(r.fullPath)
                     /\ Lookup(r.fullPath).at = Walk(<<r.repoName>>, at.at).at
                ELSE /\ IsAbsolute(r.fullPath)
                     /\ Lookup(r.fullPath) = at
                     /\ r.repoName = LastName(h)
                     /\ (IsAbsolute(resHint) => r.fullPath = resHint)

\* A relative target directory that is a plain directory: the target is its
\* entry named after the url.
C11_Witness ==
    /\ resHint = <<"c">>
    /\ resUrl = DemoUrl
    /\ Len(resolved) >= 1
    /\ resolved[1].target.repoName = <<"d", "e", "m", "o">>
    /\ resolved[1].target.fullPath =
           <<"/", "w", "/", "c", "/", "d", "e", "m", "o">>


\* ---- a path that exists is only pulled ----------------------------------

\* What the call numbered call did to the file system and with git.
CallEvents(call) == SelectSeq(gitLog, LAMBDA e : e.call = call)

\* The events of one git pull in dir, without arguments, begun and ended.
OnePull(events, dir) ==
    /\ Len(events) = 2
    /\ events[1] = [call |-> events[1].call, op |-> "pull", ev |-> "start",
                    dir |-> dir, args |-> <<>>]
    /\ events[2].op = "pull"
    /\ events[2].ev \in {"ok", "failed"}

\* C12 (as stated): a call whose resolved path existed did exactly one pull
\* in fullPath and nothing else: no clone, no directory made, and the branch
\* in no operation.
C12_ExistingPathPullsOnce ==
    \A i \in 1..Len(syncLog) :
        syncLog[i].existed =>
            OnePull(CallEvents(syncLog[i].call), syncLog[i].target.fullPath)

\* C12 (amended): a call whose resolved path existed did exactly one pull in
\* fullPath, without the branch, and nothing else when fullPath is a
\* directory; when fullPath is a regular file it did nothing at all, not the
\* pull either, and failed.  In both cases no clone was issued and no
\* directory was made.
C12_ExistingDirectoryPullsOnce ==
    \A i \in 1..Len(syncLog) :
        syncLog[i].existed =>
            /\ ~syncLog[i].cloned
            /\ IF IsDirectory(syncLog[i].target.fullPath)
               THEN OnePull(CallEvents(syncLog[i].call),
                            syncLog[i].target.fullPath)
               ELSE /\ CallEvents(syncLog[i].call) = <<>>
                    /\ syncLog[i].outcome # "ok"

\* A call with a branch found its path, a working copy, and pulled it.
C12_Witness ==
    /\ syncBranch # <<>>
    /\ Len(syncLog) = 1
    /\ syncLog[1].existed
    /\ syncLog[1].outcome = "ok"
    /\ syncLog[1].target.fullPath = <<"/", "w", "/", "r">>
    /\ OnePull(CallEvents(1), <<"/", "w", "/", "r">>)


\* ---- a path that does not exist is cloned, then pulled ------------------

\* The event of git clone begun in the parent of fullPath, of the url into
\* repoName, with the branch when there is one.
IsCloneStart(e, target) ==
    /\ e.op = "clone"
    /\ e.ev = "start"
    /\ e.dir = PathDirname(target.fullPath)
    /\ e.args[1] = syncUrl
    /\ e.args[2] = target.repoName
    /\ e.args[3] = (IF syncBranch = <<>> THEN <<>>
                    ELSE <<<<"--branch">>, syncBranch>>)

\* The events without the making of the parent directory, which comes first
\* if at all.
AfterMkdir(events, target) ==
    IF events # <<>> /\ events[1].op = "mkdir"
       /\ events[1].dir = PathDirname(target.fullPath)
    THEN Tail(events)
    ELSE events

\* C13: a call whose resolved path did not exist made the parent directory
\* if it was missing, then issued one clone of the url into repoName in the
\* parent directory (with the branch if one was given), then, only when the
\* clone had succeeded, one pull in fullPath; it returned a result only
\* after that pull had succeeded, and a call still at work has no result.
C13_CloneThenPull ==
    /\ \A i \in 1..Len(syncLog) :
           LET entry == syncLog[i]
               steps == AfterMkdir(CallEvents(entry.call), entry.target)
           IN  ~entry.existed /\ entry.outcome # "Missing url" =>
                   \/ /\ CallEvents(entry.call) = <<>>
                      /\ entry.outcome # "ok"
                   \/ /\ Len(steps) = 2
                      /\ IsCloneStart(steps[1], entry.target)
                      /\ steps[2].op = "clone" /\ steps[2].ev = "failed"
                      /\ entry.outcome # "ok"
                      /\ IsDirectory(PathDirname(entry.target.fullPath))
                   \/ /\ Len(steps) = 4
                      /\ IsCloneStart(steps[1], entry.target)
                      /\ steps[2].op = "clone" /\ steps[2].ev = "ok"
                      /\ steps[3].op = "pull" /\ steps[3].ev = "start"
                      /\ steps[3].dir = entry.target.fullPath
                      /\ steps[3].args = <<>>
                      /\ steps[4].op = "pull"
                      /\ (entry.outcome = "ok") = (steps[4].ev = "ok")
                      /\ (entry.outcome # "ok") = (steps[4].ev = "failed")
                      /\ IsDirectory(PathDirname(entry.target.fullPath))
    /\ syncPc # "idle" =>
           \A i \in 1..Len(syncLog) : syncLog[i].call # syncCalls

\* A call with a branch, to a path under a directory that was missing: the
\* directory was made, the branch cloned and the working copy pulled.
C13_Witness ==
    /\ syncBranch # <<>>
    /\ Len(syncLog) = 1
    /\ ~syncLog[1].existed
    /\ syncLog[1].outcome = "ok"
    /\ syncLog[1].target.fullPath = <<"/", "w", "/", "n", "/", "m">>
    /\ Len(CallEvents(1)) = 5
    /\ CallEvents(1)[1].op = "mkdir"
    /\ IsCloneStart(CallEvents(1)[2], syncLog[1].target)


\* ---- the manifest -------------------------------------------------------

\* C14: a call that cloned or pulled with success returns a result whatever
\* the manifest is: fileContent is null when package.winccoa.json is absent,
\* null when it is not JSON, and the JSON printed anew with two spaces of
\* indentation when it is; a call that failed failed with a message of the
\* file system or of git.
C14_ManifestNeverFails ==
    \A i \in 1..Len(syncLog) :
        IF syncLog[i].outcome = "ok"
        THEN /\ manifest = ManifestAbsent => syncLog[i].fileContent = "null"
             /\ manifest = ManifestBroken => syncLog[i].fileContent = "null"
             /\ manifest \in {ManifestCompact, ManifestPretty} =>
                    syncLog[i].fileContent = ManifestPretty
             /\ syncLog[i].cause = "none"
        ELSE syncLog[i].outcome = "Missing url" \/ syncLog[i].cause # "none"

\* A clone of a repository whose manifest is not JSON returned, the file
\* being there.
C14_Witness ==
    /\ Len(syncLog) = 1
    /\ syncLog[1].outcome = "ok"
    /\ manifest = ManifestBroken
    /\ syncLog[1].cloned
    /\ syncLog[1].fileContent = "null"
    /\ Append(Lookup(syncLog[1].target.fullPath).at, ManifestName) \in fsFiles


\* ---- the kinds of failure -----------------------------------------------

\* The phrases of each branch of the catch block of cloneRepository.
NotFoundPhrases ==
    {"repository not found", "could not read from remote repository",
     "not found", "does not exist"}

ConflictPhrases == {"already exists", "destination path"}

AuthenticationPhrases == {"Permission denied", "authentication"}

\* C15: what cloneRepository throws for an error is of one kind: repository
\* not found, directory already exists, authentication failed or the
\* catch-all; for a message with none of the phrases it is the catch-all,
\* whose text holds the original message, and a kind other than the
\* catch-all is thrown only for a message with one of its phrases.
C15_OneKindPerFailure ==
    cloneThrown # NoError =>
        LET has == errMessage.has
            matched == has \cap (NotFoundPhrases \cup ConflictPhrases
                                 \cup AuthenticationPhrases)
        IN  /\ cloneThrown.kind \in
                   {"Repository not found", "Directory already exists",
                    "Authentication failed", "Failed to clone repository"}
            /\ matched = {} =>
                   /\ cloneThrown.kind = "Failed to clone repository"
                   /\ errMessage.text \in cloneThrown.includes
            /\ cloneThrown.kind = "Repository not found" =>
                   has \cap NotFoundPhrases # {}
            /\ cloneThrown.kind = "Directory already exists" =>
                   has \cap ConflictPhrases # {}
            /\ cloneThrown.kind = "Authentication failed" =>
                   has \cap AuthenticationPhrases # {}

\* An error whose message has none of the phrases was caught and thrown
\* anew as the catch-all.
C15_Witness ==
    /\ errMessage.has \cap (NotFoundPhrases \cup ConflictPhrases
                            \cup AuthenticationPhrases) = {}
    /\ cloneThrown.kind = "Failed to clone repository"
    /\ cloneThrown.includes = {errMessage.text}


\* ---- a path that exists and cannot be synchronized ----------------------

\* C16: a call whose resolved path existed and was a regular file, or a
\* directory outside every working copy, failed with "Directory already
\* exists" and no other kind.
C16_IncompatiblePathIsConflict ==
    \A i \in 1..Len(syncLog) :
        /\ syncLog[i].existed
        /\ \/ ~IsDirectory(syncLog[i].target.fullPath)
           \/ ~HasWorkTree(Lookup(syncLog[i].target.fullPath).at)
        => syncLog[i].outcome = "Directory already exists"

\* ---- a pull that cannot fast-forward ------------------------------------

\* C17: a call whose pull failed with a merge conflict, having found its
\* path or having cloned it, failed with the merge-conflict kind, as
\* pullRepository does for the same message.
C17_MergeConflictRaised ==
    \A i \in 1..Len(syncLog) :
        syncLog[i].cause = MsgMergeConflict.text =>
            syncLog[i].outcome = "Merge conflicts detected"

\* ---- a request without url ----------------------------------------------

\* C18: a call whose url was missing or empty was refused as invalid input
\* and did nothing: no directory made, no clone and no pull issued.
C18_NoUrlNoSideEffect ==
    \A i \in 1..Len(syncLog) :
        ~syncUrlGiven \/ syncUrl = <<>> =>
            /\ syncLog[i].outcome = "Missing url"
            /\ CallEvents(syncLog[i].call) = <<>>


\* ---- register(paths[]) --------------------------------------------------

\* C19: when the registration of the path of a register request has failed,
\* the primitive having returned a negative code or an error having been
\* thrown, the request is not answered with success.
C19_RegistrationFailureSurfaced ==
    /\ regManagers = <<>>
    /\ regOutcome # "none"
    /\ (ret < 0 \/ regOutcome = "thrown")
    => RegisterSubProjects # "true"

\* ---- unregister ---------------------------------------------------------

\* C20: an unregister call leaves the list of sub-projects without the name
\* of its path and the managers of the project as they are.
C20_UnregisterRemovesNameKeepsManagers ==
    [][Len(unregLog') > Len(unregLog) =>
           /\ ProjName(unregLog'[Len(unregLog')].path) \notin Range(subProjects')
           /\ projManagers' = projManagers]_vars

\* A register call put the name into the list and attached a manager, and
\* the unregister call of the same path took the name out and left the
\* manager.
C20_Witness ==
    /\ regOutcome = "returned"
    /\ ret >= 0
    /\ projManagers # <<>>
    /\ unregLog # <<>>
    /\ unregLog[1].path = regPath
    /\ ProjName(regPath) \notin Range(subProjects)
    /\ Range(projManagers) = Range(regManagers)


\* ---- one external process at a time -------------------------------------

\* The directories below <path>/javascript that hold a package.json, in the
\* order a walk that takes a directory before what is in it meets them.
PackageDirsInOrder ==
    SelectSeq(<<JsRoot, <<"a", "b">>, <<"c">>>>, LAMBDA d : d \in pkgJson)

\* C21: during a register call at most one command is running; the commands
\* are npm install and npx tsc of each directory with a package.json, the
\* directories in the order of the walk, and a command is started only when
\* every command before it has completed.
C21_OneProcessAtATime ==
    /\ Cardinality({call \in inFlight : call.kind = "cmd"}) <= 1
    /\ \A i \in 1..Len(cmdLog) :
           /\ cmdLog[i].exitCode = Pending =>
                  i = Len(cmdLog) /\ inFlight = {CmdCall(i)}
           /\ cmdLog[i].dir = PackageDirsInOrder[((i - 1) \div 2) + 1]
           /\ cmdLog[i].cmd = DirCommands[((i - 1) % 2) + 1]

\* The build of the second directory is running, the three commands before
\* it having completed.
C21_Witness ==
    /\ Len(cmdLog) = 4
    /\ cmdLog[4].exitCode = Pending
    /\ cmdLog[4].dir # cmdLog[1].dir
    /\ \A i \in 1..3 : cmdLog[i].exitCode = JsInt(0)
    /\ inFlight = {CmdCall(4)}


\* ---- the resolved path is absolute and normalized -----------------------

\* C22: the fullPath of every resolution is absolute and normalized: it
\* begins with "/" and path.normalize leaves it as it is.
C22_FullPathAbsoluteNormalized ==
    \A i \in 1..Len(resolved) :
        /\ IsAbsolute(resolved[i].target.fullPath)
        /\ PathNormalize(resolved[i].target.fullPath) =
               resolved[i].target.fullPath


\* ---- nothing follows a registration that failed -------------------------

\* C23: no command and no addManager call is started while the registration
\* primitive has not completed, and none at all when it returned a negative
\* code.
C23_NothingAfterFailedPrimitive ==
    regPc = "registerSubProj" \/ ret < 0 => cmdLog = <<>> /\ attachLog = <<>>


\* ---- a command that failed is not a success -----------------------------

\* C24: a command for which exec reported an error, so that the exit code
\* of its result is not the number 0, is not classified as a success, and
\* import does not return true for it unless its code is a warning code.
C24_ErrorIsNeverSuccess ==
    impPc = "done" /\ impExitCode \notin {Pending, JsInt(0)} =>
        /\ ExitTier(impExitCode) # "Success"
        /\ impReturn => ExitTier(impExitCode) = "Warning"


\* ---- pull of a path that cannot be pulled -------------------------------

\* C25: a pullRepository call for a directory that does not exist, or for
\* one without ".git" in it, ended without git.pull being called, with the
\* error of its kind ("does not exist" for the one, "not a git repository"
\* for the other), whose text names the directory.
C25_PrecheckKeepsKind ==
    \A i \in 1..Len(pullLog) :
        LET entry == pullLog[i]
        IN  IF ~ExistsSync(entry.dir)
            THEN /\ ~entry.invoked
                 /\ entry.outcome = "Repository directory does not exist"
                 /\ entry.names
            ELSE ~ExistsSync(PathJoin(entry.dir, GitDirName)) =>
                     /\ ~entry.invoked
                     /\ entry.outcome = "Directory is not a git repository"
                     /\ entry.names

====
